---- MODULE Spec2Model ----
(***************************************************************************)
(* Request/response orchestration of the chat client (App.handleSendMessage *)
(* and the handlers, effects and adapter calls it interleaves with).        *)
(*                                                                          *)
(* Execution model.  The program is single threaded: every action below is  *)
(* one synchronous segment of JavaScript (an event handler, the code        *)
(* between two awaits of an async function, or one round of React effects). *)
(* The React state setters called by a segment are applied in call order    *)
(* when the segment ends; the values a segment reads from its closure are   *)
(* the ones committed before it started.                                    *)
(*                                                                          *)
(* A text is a sequence of tokens.  A token is one character, or one of the *)
(* program's fixed string literals taken as a whole.                        *)
(***************************************************************************)
EXTENDS Integers, Sequences, FiniteSets, TLC

(***************************************************************************)
(* Bounds of the model                                                      *)
(***************************************************************************)
\* the inputs of a behaviour: accepted sends, chunks delivered by the streams,
\* and session, mode and model operations of the user, all together
MaxEvents == 3
\* the sends accepted in a behaviour of SpecLive
MaxSends == 1

\* the longest path (in parts) findAndUpdateFile is called with
MaxPathLen == 2

\* the longest list of citations a response is finalized with
MaxCitations == 3

(***************************************************************************)
(* Values                                                                   *)
(***************************************************************************)
Null == 0

\* enum Role
Role == [ USER |-> "user", MODEL |-> "model" ]

EmptyText == << >>
\* the texts the handlers write: message contents, title and project-name affixes
Text ==
  [ stopped |-> << "You stopped this response." >>,
    error |-> << "Sorry, I encountered an error. Please try again." >>,
    videoPlaceholder |-> << "Generating your video..." >>,
    videoFallback |-> << "Here is your generated video." >>,
    parseFailed |-> << "Failed to parse the AI's code response. Here is the raw response:\n\n" >>,
    badFormat |-> << "The AI response was not in the expected format. Here is the raw response:\n\n" >>,
    ellipsis |-> << ".", ".", "." >>,
    projectFor |-> << "Project for: " >>,
    thinkingOpen |-> "<thinking>",
    thinkingClose |-> "</thinking>" ]
VideoAdapterText == << "Your video has been generated." >>

Hello == << "H", "e", "l", "l", "o" >>
Hi == << "H", "i" >>
There == << " ", "t", "h", "e", "r", "e" >>

Whitespace == { " ", "\n", "\t" }


\* enum Model
Model ==
  [ GEMINI_2_5_PRO |-> "gemini-2.5-pro",
    GEMINI_2_5_FLASH |-> "gemini-2.5-flash",
    GEMINI_2_5_FLASH_LITE |-> "gemini-2.5-flash-lite",
    GEMINI_2_5_FLASH_IMAGE_PREVIEW |-> "gemini-2.5-flash-image-preview",
    GEMINI_2_0_FLASH |-> "gemini-2.0-flash",
    GEMINI_2_0_FLASH_PREVIEW_IMAGE_GENERATION |-> "gemini-2.0-flash-preview-image-generation",
    GEMINI_2_0_FLASH_LITE |-> "gemini-2.0-flash-lite",
    IMAGEN_4_0_GENERATE_001 |-> "imagen-4.0-generate-001",
    IMAGEN_4_0_ULTRA_GENERATE_001 |-> "imagen-4.0-ultra-generate-001",
    IMAGEN_4_0_FAST_GENERATE_001 |-> "imagen-4.0-fast-generate-001",
    IMAGEN_3_0_GENERATE_002 |-> "imagen-3.0-generate-002",
    VEO_3_0_GENERATE_PREVIEW |-> "veo-3.0-generate-preview",
    VEO_3_0_FAST_GENERATE_PREVIEW |-> "veo-3.0-fast-generate-preview",
    VEO_2_0_GENERATE_001 |-> "veo-2.0-generate-001",
    GEMMA_3_27B |-> "gemma-3-27b-it" ]

VARIABLES
  appVariant,               \* which App component is mounted: 1 or 2
  chatHistory,              \* useState<ChatSession[]>
  activeChatId,             \* useState<string | null>
  isLoading,                \* useState<boolean>
  abortControllerRef,       \* useRef<AbortController | null>: the request owning the controller
  isCodeInterpreterToggled,
  isDeepResearchToggled,
  isImageToolActive,
  isVideoToolActive,
  selectedModel,
  syncPending,              \* the dependencies of the project-sync effect changed
  reqs,                     \* the invocations of handleSendMessage that were accepted
  clock,                    \* Date.now(), counted in identifiers handed out
  uiOps,                    \* UI operations so far other than accepted sends and stops of a running request
  lastOp,                   \* the segment that ran last: "rejected" (handleSendMessage returned
                            \* at a guard), "stop" (handleStopGeneration), "toggle", else "step"
  localStorage,             \* the items 'chatHistory' and 'activeChatId' (Null: absent)
  pendingProjectUpdate,     \* useState<Project | null>; streamingTarget is set and cleared with it
  isCodePanelVisible,       \* useState<boolean>: CodeInterpreterPanel is mounted
  activeInterpreterFile,    \* useState<string>: the path of the file shown
  fileTree,                 \* findAndUpdateFile: the tree the calls update in place
  call,                     \* findAndUpdateFile: the last call and the value it returned
  citationList,             \* finalUpdater: a list of accumulated grounding chunks
  uniqueChunks              \* finalUpdater: updatedMsg.groundingChunks, computed from citationList

\* the state of the code panel, set by the finalization of a project response
interpreterVars == << pendingProjectUpdate, isCodePanelVisible, activeInterpreterFile >>

\* the inputs and results of the functions that are exercised on their own
functionVars == << fileTree, call, citationList, uniqueChunks >>

appVars == << appVariant, chatHistory, activeChatId, isLoading, abortControllerRef,
              isCodeInterpreterToggled, isDeepResearchToggled, isImageToolActive,
              isVideoToolActive, selectedModel, syncPending, reqs, clock, uiOps, lastOp >>

vars == << appVars, interpreterVars, functionVars, localStorage >>

(***************************************************************************)
(* Text helpers (String.prototype.trim, substring)                          *)
(***************************************************************************)
RECURSIVE TrimStart(_)
TrimStart(t) ==
  IF t = << >> THEN << >>
  ELSE IF t[1] \in Whitespace THEN TrimStart(Tail(t)) ELSE t

RECURSIVE TrimEnd(_)
TrimEnd(t) ==
  IF t = << >> THEN << >>
  ELSE IF t[Len(t)] \in Whitespace THEN TrimEnd(SubSeq(t, 1, Len(t) - 1)) ELSE t

Trim(t) == TrimEnd(TrimStart(t))

Substring(t, from, to) == SubSeq(t, from + 1, IF to < Len(t) THEN to ELSE Len(t))

\* Array.prototype.slice(0, -n)
SliceDropLast(s, n) == IF Len(s) <= n THEN << >> ELSE SubSeq(s, 1, Len(s) - n)

(***************************************************************************)
(* Projects (types/index.ts) and createNewProject                           *)
(***************************************************************************)
\* A file tree ({ [key]: FileSystemNode }, nested through children) is a function from
\* paths to nodes; a path is the sequence of the keys that lead to the node.  A node
\* is an object with the optional members content and children: children tells that
\* the node has the member children (the children themselves are the nodes at the
\* longer paths), hasContent that it has the member content.
FileNode(content) == [ children |-> FALSE, hasContent |-> TRUE, content |-> content ]
DirectoryNode == [ children |-> TRUE, hasContent |-> FALSE, content |-> EmptyText ]

InitialIndexHtml == << "Hello, World!" >>
initialFiles == [ p \in { << "index.html" >> } |-> FileNode(InitialIndexHtml) ]

NoProject == [ present |-> FALSE, id |-> 0, name |-> EmptyText, files |-> initialFiles ]

createNewProject(name, now) ==
  [ present |-> TRUE, id |-> now, name |-> name, files |-> initialFiles ]

\* findAndUpdateFile with the test of line 82 left out: a file met on the way is given
\* children and the loop goes on
RECURSIVE FindAndUpdateFromThroughFiles(_, _, _, _)
FindAndUpdateFromThroughFiles(nodes, parts, i, content) ==
  LET here == SubSeq(parts, 1, i)
      isLastPart == i = Len(parts)
      created ==
        IF here \in DOMAIN nodes THEN nodes
        ELSE (here :> (IF isLastPart THEN FileNode(content) ELSE DirectoryNode)) @@ nodes
  IN  IF isLastPart
      THEN IF created[here].children
           THEN [ nodes |-> created, returned |-> FALSE ]
           ELSE [ nodes |-> [ created EXCEPT ![here].content = content, ![here].hasContent = TRUE ],
                  returned |-> TRUE ]
      ELSE FindAndUpdateFromThroughFiles([ created EXCEPT ![here] = DirectoryNode ],
                                         parts, i + 1, content)

\* findAndUpdateFile with the test of line 79 left out: the content is written to
\* whatever node the last part names
RECURSIVE FindAndUpdateFromOverDirectories(_, _, _, _)
FindAndUpdateFromOverDirectories(nodes, parts, i, content) ==
  LET here == SubSeq(parts, 1, i)
      isLastPart == i = Len(parts)
      created ==
        IF here \in DOMAIN nodes THEN nodes
        ELSE (here :> (IF isLastPart THEN FileNode(content) ELSE DirectoryNode)) @@ nodes
  IN  IF isLastPart
      THEN [ nodes |-> [ created EXCEPT ![here].content = content, ![here].hasContent = TRUE ],
             returned |-> TRUE ]
      ELSE IF ~ created[here].children
           THEN [ nodes |-> created, returned |-> FALSE ]
           ELSE FindAndUpdateFromOverDirectories(created, parts, i + 1, content)

\* findAndUpdateFile, from the iteration of its loop at part i on: currentLevel is the
\* children of the node at the first i - 1 parts.  The result is the tree as the
\* call leaves it and the value returned.
RECURSIVE FindAndUpdateFrom(_, _, _, _)
FindAndUpdateFrom(nodes, parts, i, content) ==
  LET here == SubSeq(parts, 1, i)
      isLastPart == i = Len(parts)
      created ==
        IF here \in DOMAIN nodes THEN nodes
        ELSE (here :> (IF isLastPart THEN FileNode(content) ELSE DirectoryNode)) @@ nodes
  IN  IF isLastPart
      THEN IF created[here].children
           THEN [ nodes |-> created, returned |-> FALSE ]
           ELSE [ nodes |-> [ created EXCEPT ![here].content = content, ![here].hasContent = TRUE ],
                  returned |-> TRUE ]
      ELSE IF ~ created[here].children
           THEN [ nodes |-> created, returned |-> FALSE ]
           ELSE FindAndUpdateFrom(created, parts, i + 1, content)

\* path is path.split('/'): the sequence of its parts
findAndUpdateFile(nodes, path, content) == FindAndUpdateFrom(nodes, path, 1, content)

\* no call of findAndUpdateFile yet: the entries passed, the value each call returned
\* and the tree before the first call
NoCall == [ entries |-> << >>, returned |-> << >>, before |-> initialFiles ]

(***************************************************************************)
(* Messages and sessions (types/index.ts)                                   *)
(***************************************************************************)
ChatMessage(id, role, content, attachments, isThinking, projectFilesUpdate) ==
  [ id |-> id, role |-> role, content |-> content, attachments |-> attachments,
    reasoning |-> EmptyText, isThinking |-> isThinking,
    projectFilesUpdate |-> projectFilesUpdate, project |-> NoProject,
    groundingChunks |-> [ present |-> FALSE, items |-> << >> ] ]

ChatSession(id, title, messages) ==
  [ id |-> id, title |-> title, messages |-> messages, project |-> NoProject ]

NoSession == ChatSession(Null, EmptyText, << >>)

\* Array.prototype.find on the session list: NoSession stands for undefined
FindChat(history, id) ==
  IF \E i \in 1..Len(history) : history[i].id = id
  THEN history[CHOOSE i \in 1..Len(history) :
                 history[i].id = id /\ \A j \in 1..(i - 1) : history[j].id # id]
  ELSE NoSession

HasChat(history, id) == \E i \in 1..Len(history) : history[i].id = id

\* prev.map(chat => chat.id === id ? f(chat) : chat)
MapChat(history, id, f(_)) ==
  [ i \in 1..Len(history) |-> IF history[i].id = id THEN f(history[i]) ELSE history[i] ]

LastMessage(chat) == chat.messages[Len(chat.messages)]
HasLastModel(chat) == Len(chat.messages) > 0 /\ LastMessage(chat).role = Role.MODEL

\* [...messages.slice(0, -1), m]
ReplaceLast(chat, m) ==
  [ chat EXCEPT !.messages = SubSeq(chat.messages, 1, Len(chat.messages) - 1) \o << m >> ]

(***************************************************************************)
(* Model classes (App: the model name maps and the is...Model memos)        *)
(***************************************************************************)
deepResearchCompatibleModels == { Model.GEMINI_2_5_PRO, Model.GEMINI_2_5_FLASH }

codeInterpreterCompatibleModels ==
  { Model.GEMINI_2_5_PRO, Model.GEMINI_2_5_FLASH, Model.GEMINI_2_5_FLASH_LITE,
    Model.GEMINI_2_0_FLASH, Model.GEMINI_2_0_FLASH_LITE }

imageGenModels ==
  { Model.IMAGEN_4_0_ULTRA_GENERATE_001, Model.IMAGEN_4_0_GENERATE_001,
    Model.IMAGEN_4_0_FAST_GENERATE_001, Model.IMAGEN_3_0_GENERATE_002 }

imageEditModels ==
  { Model.GEMINI_2_5_FLASH_IMAGE_PREVIEW, Model.GEMINI_2_0_FLASH_PREVIEW_IMAGE_GENERATION }

videoGenModels(v) ==
  IF v = 1 THEN { Model.VEO_2_0_GENERATE_001 }
  ELSE { Model.VEO_3_0_GENERATE_PREVIEW, Model.VEO_3_0_FAST_GENERATE_PREVIEW, Model.VEO_2_0_GENERATE_001 }

videoDefaultModel(v) == IF v = 1 THEN Model.VEO_2_0_GENERATE_001 ELSE Model.VEO_3_0_GENERATE_PREVIEW

chatModels ==
  { Model.GEMINI_2_5_PRO, Model.GEMINI_2_5_FLASH, Model.GEMINI_2_5_FLASH_LITE, Model.GEMINI_2_0_FLASH,
    Model.GEMINI_2_0_FLASH_LITE, Model.GEMMA_3_27B }

isTextToImageModel(m) == m \in imageGenModels
isImageEditModel(m) == m \in imageEditModels
isVideoModel(v, m) ==
  IF v = 1 THEN m = Model.VEO_2_0_GENERATE_001
  ELSE m \in { Model.VEO_2_0_GENERATE_001, Model.VEO_3_0_GENERATE_PREVIEW, Model.VEO_3_0_FAST_GENERATE_PREVIEW }
isThinkingModel(m) == m \in { Model.GEMINI_2_5_PRO, Model.GEMINI_2_5_FLASH, Model.GEMINI_2_5_FLASH_LITE }
isProModel(m) == m = Model.GEMINI_2_5_PRO

\* useState(false), never set by the operations modelled here
useThinking == FALSE

\* combinedModelOptions: what the model selector offers
combinedModelOptions ==
  IF isVideoToolActive THEN videoGenModels(appVariant)
  ELSE IF isImageToolActive THEN imageGenModels \cup imageEditModels
  ELSE IF isDeepResearchToggled THEN chatModels \cap deepResearchCompatibleModels
  ELSE IF isCodeInterpreterToggled THEN chatModels \cap codeInterpreterCompatibleModels
  ELSE chatModels

(***************************************************************************)
(* The effects of App, one round: every effect reads the committed state,   *)
(* the setters they call are applied afterwards in call order               *)
(***************************************************************************)
activeChat == IF activeChatId = Null THEN NoSession ELSE FindChat(chatHistory, activeChatId)

\* useEffect [activeChatId, activeChat]: setIsCodeInterpreterToggled(!!activeChat?.project)
ProjectSyncEffect ==
  IF syncPending THEN activeChat.project.present ELSE isCodeInterpreterToggled

\* handleNewChat of the second App, as the active-session repair effect calls it
NewChatNeeded ==
  ~ (HasChat(chatHistory, activeChatId) /\ FindChat(chatHistory, activeChatId).messages = << >>)

\* useEffect [chatHistory, activeChatId]: the active-session repair effect
RepairSetsActive ==
  IF appVariant = 1
  THEN activeChatId # Null /\ ~ HasChat(chatHistory, activeChatId)
  ELSE Len(chatHistory) > 0 /\ ~ HasChat(chatHistory, activeChatId)

RepairCreatesChatWithoutPointer ==
  appVariant = 2 /\ Len(chatHistory) = 0 /\ activeChatId = Null

RepairCreatesChat == appVariant = 2 /\ Len(chatHistory) = 0

RepairActiveChatId ==
  IF RepairCreatesChat THEN clock + 1
  ELSE IF RepairSetsActive
       THEN (IF Len(chatHistory) > 0 THEN chatHistory[1].id ELSE Null)
       ELSE activeChatId

RepairChatHistory ==
  IF RepairCreatesChat
  THEN << ChatSession(clock + 1, << "New Chat" >>, << >>) >> \o chatHistory
  ELSE chatHistory

\* the model-compatibility effects with the deep-research effect (lines 387-391) left out
ModelResetEffectWithoutDeepResearch ==
  LET multimedia == imageGenModels \cup imageEditModels \cup videoGenModels(appVariant)
      r2 == isCodeInterpreterToggled /\ selectedModel \notin codeInterpreterCompatibleModels
      r3 == IF isImageToolActive
            THEN selectedModel \notin (imageGenModels \cup imageEditModels)
            ELSE IF isVideoToolActive
                 THEN selectedModel \notin videoGenModels(appVariant)
                 ELSE selectedModel \in multimedia
      v3 == IF isImageToolActive THEN Model.IMAGEN_4_0_GENERATE_001
            ELSE IF isVideoToolActive THEN videoDefaultModel(appVariant)
            ELSE Model.GEMINI_2_5_FLASH
  IN  IF r3 THEN v3
      ELSE IF r2 THEN Model.GEMINI_2_5_FLASH
      ELSE selectedModel

\* the three model-compatibility effects; the last setSelectedModel wins
ModelResetEffect ==
  LET multimedia == imageGenModels \cup imageEditModels \cup videoGenModels(appVariant)
      r1 == isDeepResearchToggled /\ selectedModel \notin deepResearchCompatibleModels
      r2 == isCodeInterpreterToggled /\ selectedModel \notin codeInterpreterCompatibleModels
      r3 == IF isImageToolActive
            THEN selectedModel \notin (imageGenModels \cup imageEditModels)
            ELSE IF isVideoToolActive
                 THEN selectedModel \notin videoGenModels(appVariant)
                 ELSE selectedModel \in multimedia
      v3 == IF isImageToolActive THEN Model.IMAGEN_4_0_GENERATE_001
            ELSE IF isVideoToolActive THEN videoDefaultModel(appVariant)
            ELSE Model.GEMINI_2_5_FLASH
  IN  IF r3 THEN v3
      ELSE IF r1 \/ r2 THEN Model.GEMINI_2_5_FLASH
      ELSE selectedModel

\* the persistence effect without the filter on the message list
PersistenceEffectWithoutFilter ==
  [ chatHistory |-> chatHistory,
    activeChatId |-> IF activeChatId # Null /\ HasChat(chatHistory, activeChatId)
                     THEN activeChatId ELSE Null ]

\* the persistence effect saving the active id whenever there is one
PersistenceEffectSavingActiveId ==
  [ chatHistory |-> SelectSeq(chatHistory, LAMBDA chat : Len(chat.messages) > 0),
    activeChatId |-> activeChatId ]

\* useEffect [chatHistory, activeChatId]: the sessions that have messages are saved,
\* and the active id if it names one of them (removeItem otherwise)
PersistenceEffect ==
  LET historyToSave == SelectSeq(chatHistory, LAMBDA chat : Len(chat.messages) > 0)
  IN  [ chatHistory |-> historyToSave,
        activeChatId |-> IF activeChatId # Null /\ HasChat(historyToSave, activeChatId)
                         THEN activeChatId ELSE Null ]

EffectsChange ==
  \/ syncPending
  \/ PersistenceEffect # localStorage
  \/ RepairActiveChatId # activeChatId
  \/ RepairChatHistory # chatHistory
  \/ ModelResetEffect # selectedModel

\* the model-compatibility effects alternate between two models for ever
\* (one tool demands a chat model, another a multimedia model)
EffectsLivelock ==
  /\ ~ syncPending
  /\ PersistenceEffect = localStorage
  /\ RepairActiveChatId = activeChatId
  /\ RepairChatHistory = chatHistory
  /\ (isDeepResearchToggled \/ isCodeInterpreterToggled)
  /\ (isImageToolActive \/ isVideoToolActive)

\* a handler or continuation runs once the effects of the last commit have run
Settled == ~ EffectsChange \/ EffectsLivelock

RunEffects ==
  /\ EffectsChange
  /\ isCodeInterpreterToggled' = ProjectSyncEffect
  /\ activeChatId' = RepairActiveChatId
  /\ chatHistory' = RepairChatHistory
  /\ selectedModel' = ModelResetEffect
  /\ clock' = IF RepairCreatesChat THEN clock + 1 ELSE clock
  /\ isDeepResearchToggled' = IF RepairCreatesChat THEN FALSE ELSE isDeepResearchToggled
  /\ isImageToolActive' = IF RepairCreatesChat THEN FALSE ELSE isImageToolActive
  /\ isVideoToolActive' = IF RepairCreatesChat THEN FALSE ELSE isVideoToolActive
  /\ syncPending' = (RepairActiveChatId # activeChatId)
  /\ lastOp' = "step"
  /\ localStorage' = PersistenceEffect
  /\ isCodePanelVisible' = IF RepairCreatesChat THEN FALSE ELSE isCodePanelVisible
  /\ UNCHANGED << appVariant, isLoading, abortControllerRef, reqs, uiOps >>
  /\ UNCHANGED << pendingProjectUpdate, activeInterpreterFile, functionVars >>

(***************************************************************************)
(* Requests: one record per accepted invocation of handleSendMessage, with  *)
(* the values its closure captured and its local variables                  *)
(***************************************************************************)
NoResponse == [ present |-> FALSE, text |-> EmptyText, parts |-> << >> ]

NoReq ==
  [ status |-> "none",            \* "none", "running" (accepted, before finally), "ended"
    stage |-> "-",                \* the await the adapter call is suspended at
    chatId |-> Null,              \* currentChatId
    model |-> Model.GEMINI_2_5_FLASH,   \* modelForApi
    isInterpreterRequest |-> FALSE,
    isImageRequest |-> FALSE,
    isVideoRequest |-> FALSE,
    thinkingAsked |-> FALSE,      \* finalSystemInstruction asks for <thinking> tags
    aborted |-> FALSE,            \* signal.aborted
    fullResponseText |-> EmptyText,
    fullResponse |-> NoResponse,
    finalParts |-> << >>,
    groundingChunks |-> << >>,
    messagesForApi |-> << >>,
    \* what happened to the request, recorded for the properties
    prompt |-> EmptyText,
    priorMessages |-> << >>,      \* the session's messages when the send was accepted
    calls |-> 0,                  \* the calls of generateImage, generateVideo, generateChatResponse
    nChunks |-> 0,                \* the calls of onChunk
    streamed |-> EmptyText,       \* the chunk texts passed to onChunk, concatenated
    chunksAfterAbort |-> 0,       \* onChunk calls made after the signal was aborted
    outcome |-> "-",              \* how the adapter call ended: "ok", "error", "abort"
    finalized |-> FALSE,          \* finalUpdater was scheduled
    stopped |-> FALSE ]           \* handleStopGeneration ran while the request was running

Reqs == 1..MaxEvents
Accepted == { r \in Reqs : reqs[r].status # "none" }
Running == { r \in Reqs : reqs[r].status = "running" }
NextReq == Cardinality(Accepted) + 1

RECURSIVE SumChunks(_)
SumChunks(r) == IF r = 0 THEN 0 ELSE reqs[r].nChunks + SumChunks(r - 1)
ChunksDelivered == SumChunks(MaxEvents)

\* the inputs consumed so far
Events == Cardinality(Accepted) + ChunksDelivered + uiOps

(***************************************************************************)
(* handleSendMessage, up to its first await                                 *)
(***************************************************************************)
\* `msg-user-${Date.now()}`, `msg-model-${Date.now()}`, `msg-user-api-${Date.now()}`:
\* the identifiers of the messages of request r
MessageId(kind, r) == << kind, r >>

uiUserMessage(r, prompt, attachments) ==
  ChatMessage(MessageId("msg-user", r), Role.USER, prompt, attachments, FALSE, FALSE)

apiUserMessage(r, prompt, attachments) ==
  ChatMessage(MessageId("msg-user-api", r), Role.USER, prompt, attachments, FALSE, FALSE)

isThinkingActive == isThinkingModel(selectedModel) /\ (isProModel(selectedModel) \/ useThinking)

placeholderModelMessage(r) ==
  ChatMessage(MessageId("msg-model", r), Role.MODEL,
              IF isVideoToolActive THEN Text.videoPlaceholder ELSE EmptyText,
              << >>,
              isThinkingActive \/ isImageToolActive \/ isVideoToolActive,
              isCodeInterpreterToggled)

\* a title that is cut without the ellipsis
newTitleWithoutEllipsis(prompt) == Substring(prompt, 0, 40)

\* prompt.substring(0, 40) + (prompt.length > 40 ? '...' : '')
newTitle(prompt) == Substring(prompt, 0, 40) \o (IF Len(prompt) > 40 THEN Text.ellipsis ELSE << >>)

\* `Project for: ${prompt.substring(0, 30)}...`
newProjectName(prompt) == Text.projectFor \o Substring(prompt, 0, 30) \o Text.ellipsis

AppendTurn(chat, r, prompt, attachments) ==
  [ chat EXCEPT !.messages = @ \o << uiUserMessage(r, prompt, attachments),
                                     placeholderModelMessage(r) >> ]

\* the adapter endpoint the try block calls, as the await it first suspends at
Dispatch ==
  IF isImageToolActive /\ isTextToImageModel(selectedModel) THEN "image"
  ELSE IF isVideoToolActive THEN "videoStart"
  ELSE IF isImageEditModel(selectedModel) THEN "editGen"
  ELSE "connect"

\* first App: the session list after the setChatHistory calls of the prologue
SendHistory1(r, prompt, attachments) ==
  LET now == clock + 1
      isNewChat == activeChatId = Null
      currentChatId == IF isNewChat THEN now ELSE activeChatId
      currentChat ==
        IF isNewChat
        THEN ChatSession(now, newTitle(prompt),
                         << uiUserMessage(r, prompt, attachments), placeholderModelMessage(r) >>)
        ELSE FindChat(chatHistory, activeChatId)
      appended ==
        IF isNewChat THEN << currentChat >> \o chatHistory
        ELSE MapChat(chatHistory, currentChatId, LAMBDA c : AppendTurn(c, r, prompt, attachments))
      projectForApi == FindChat(chatHistory, currentChatId).project
      updatedChat == [ currentChat EXCEPT !.project = createNewProject(newProjectName(prompt), now) ]
  IN  IF isCodeInterpreterToggled /\ ~ projectForApi.present
      THEN MapChat(appended, currentChatId, LAMBDA c : updatedChat)
      ELSE appended

\* first App: [...currentChat.messages.slice(0, -2), apiUserMessage]
MessagesForApi1(r, prompt, attachments) ==
  LET currentChat ==
        IF activeChatId = Null
        THEN ChatSession(clock + 1, newTitle(prompt),
                         << uiUserMessage(r, prompt, attachments), placeholderModelMessage(r) >>)
        ELSE FindChat(chatHistory, activeChatId)
  IN  SliceDropLast(currentChat.messages, 2) \o << apiUserMessage(r, prompt, attachments) >>

\* second App: the project is created first, the turn is appended last
CurrentChat2(prompt) ==
  LET found == FindChat(chatHistory, activeChatId)
  IN  IF isCodeInterpreterToggled /\ ~ found.project.present
      THEN [ found EXCEPT !.project = createNewProject(newProjectName(prompt), clock + 1) ]
      ELSE found

SendHistory2(r, prompt, attachments) ==
  LET currentChat == CurrentChat2(prompt)
      withProject ==
        IF isCodeInterpreterToggled /\ ~ FindChat(chatHistory, activeChatId).project.present
        THEN MapChat(chatHistory, activeChatId, LAMBDA c : currentChat)
        ELSE chatHistory
      title == IF Len(currentChat.messages) = 0 THEN newTitle(prompt) ELSE currentChat.title
  IN  MapChat(withProject, activeChatId,
              LAMBDA c : [ AppendTurn(c, r, prompt, attachments) EXCEPT !.title = title ])

\* second App: [...currentMessages, apiUserMessage]
MessagesForApi2(r, prompt, attachments) ==
  CurrentChat2(prompt).messages \o << apiUserMessage(r, prompt, attachments) >>

\* handleSendMessage whose first test leaves out isLoading
SendRejectionWithoutLoadingTest(prompt, attachments) ==
  IF Trim(prompt) = << >> /\ Len(attachments) = 0 THEN "guard"
  ELSE IF appVariant = 2 /\ activeChatId = Null THEN "no-session"
  ELSE IF isImageToolActive /\ isTextToImageModel(selectedModel) /\ Len(attachments) > 0
       THEN "alert-attachments"
  ELSE IF appVariant = 2 /\ isImageToolActive /\ isImageEditModel(selectedModel)
          /\ Len(attachments) = 0
       THEN "alert-no-attachment"
  ELSE "accepted"

\* the synchronous rejections of handleSendMessage, in source order
SendRejection(prompt, attachments) ==
  IF (Trim(prompt) = << >> /\ Len(attachments) = 0) \/ isLoading THEN "guard"
  ELSE IF appVariant = 2 /\ activeChatId = Null THEN "no-session"
  ELSE IF isImageToolActive /\ isTextToImageModel(selectedModel) /\ Len(attachments) > 0
       THEN "alert-attachments"
  ELSE IF appVariant = 2 /\ isImageToolActive /\ isImageEditModel(selectedModel)
          /\ Len(attachments) = 0
       THEN "alert-no-attachment"
  ELSE "accepted"

HandleSendMessageRejected(prompt, attachments) ==
  /\ Events < MaxEvents
  /\ Settled
  /\ SendRejection(prompt, attachments) # "accepted"
  /\ uiOps' = uiOps + 1
  /\ lastOp' = "rejected"
  /\ UNCHANGED << appVariant, chatHistory, activeChatId, isLoading, abortControllerRef,
                  isCodeInterpreterToggled, isDeepResearchToggled, isImageToolActive,
                  isVideoToolActive, selectedModel, syncPending, reqs, clock >>
  /\ UNCHANGED << interpreterVars, functionVars, localStorage >>

HandleSendMessageAccepted(prompt, attachments) ==
  LET r == NextReq
      isNewChat == appVariant = 1 /\ activeChatId = Null
      currentChatId == IF isNewChat THEN clock + 1 ELSE activeChatId
  IN  /\ Events < MaxEvents
      /\ Settled
      /\ SendRejection(prompt, attachments) = "accepted"
      /\ isNewChat \/ HasChat(chatHistory, activeChatId)
      /\ isLoading' = TRUE
      /\ abortControllerRef' = r
      /\ chatHistory' = IF appVariant = 1 THEN SendHistory1(r, prompt, attachments)
                        ELSE SendHistory2(r, prompt, attachments)
      /\ activeChatId' = currentChatId
      /\ clock' = clock + 1
      /\ syncPending' = TRUE
      /\ reqs' = [ reqs EXCEPT ![r] =
           [ NoReq EXCEPT
               !.status = "running",
               !.stage = Dispatch,
               !.calls = 1,
               !.chatId = currentChatId,
               !.model = selectedModel,
               !.isInterpreterRequest = isCodeInterpreterToggled,
               !.isImageRequest = isImageToolActive,
               !.isVideoRequest = isVideoToolActive,
               !.thinkingAsked = /\ isThinkingActive /\ ~ isCodeInterpreterToggled
                                 /\ ~ isImageEditModel(selectedModel)
                                 /\ ~ isTextToImageModel(selectedModel)
                                 /\ ~ isVideoModel(appVariant, selectedModel),
               !.messagesForApi = IF appVariant = 1 THEN MessagesForApi1(r, prompt, attachments)
                                  ELSE MessagesForApi2(r, prompt, attachments),
               !.prompt = prompt,
               !.priorMessages = FindChat(chatHistory, currentChatId).messages ] ]
      /\ lastOp' = "step"
      /\ UNCHANGED << appVariant, isCodeInterpreterToggled, isDeepResearchToggled,
                      isImageToolActive, isVideoToolActive, selectedModel, uiOps >>
      /\ UNCHANGED << interpreterVars, functionVars, localStorage >>

(***************************************************************************)
(* finalUpdater: the Response Post-Processor                                *)
(***************************************************************************)
TextPart(t) == [ text |-> t, inline |-> FALSE, mimeType |-> "" ]
InlinePart(mime) == [ text |-> EmptyText, inline |-> TRUE, mimeType |-> mime ]

\* name: `generated-${isVideo ? 'video' : 'image'}-${Date.now()}`, dataUrl built from the part
GeneratedAttachment(part) ==
  [ name |-> IF part.mimeType = "video/mp4" THEN "generated-video" ELSE "generated-image",
    mimeType |-> part.mimeType,
    dataUrl |-> << "data:", part.mimeType, ";base64," >> ]

RECURSIVE PartsText(_)
PartsText(parts) ==
  IF parts = << >> THEN EmptyText
  ELSE (IF Len(parts[1].text) > 0 THEN parts[1].text ELSE EmptyText) \o PartsText(Tail(parts))

RECURSIVE PartsAttachments(_)
PartsAttachments(parts) ==
  IF parts = << >> THEN << >>
  ELSE (IF Len(parts[1].text) = 0 /\ parts[1].inline
        THEN << GeneratedAttachment(parts[1]) >> ELSE << >>) \o PartsAttachments(Tail(parts))

\* the image / video branch
FinalizeMedia(rq, msg) ==
  LET finalContent ==
        IF Len(rq.finalParts) > 0 THEN PartsText(rq.finalParts)
        ELSE rq.fullResponseText
      finalAttachments ==
        IF Len(rq.finalParts) > 0 THEN PartsAttachments(rq.finalParts) ELSE << >>
  IN  [ msg EXCEPT
          !.content = IF Len(finalContent) > 0 THEN finalContent
                      ELSE IF rq.isVideoRequest THEN Text.videoFallback ELSE EmptyText,
          !.attachments = finalAttachments ]

\* positions of a token in a text
Positions(t, tok) == { i \in 1..Len(t) : t[i] = tok }
MinOf(S) == CHOOSE x \in S : \A y \in S : x <= y
MaxOf(S) == CHOOSE x \in S : \A y \in S : x >= y

\* /<thinking>([\s\S]*?)<\/thinking>/ : the leftmost opening tag that has a closing
\* tag after it, up to the first closing tag after it
ThinkingMatches(t) ==
  \E i \in Positions(t, Text.thinkingOpen) : \E j \in Positions(t, Text.thinkingClose) : i < j
ThinkingStart(t) ==
  MinOf({ i \in Positions(t, Text.thinkingOpen) : \E j \in Positions(t, Text.thinkingClose) : i < j })
ThinkingEnd(t) == MinOf({ j \in Positions(t, Text.thinkingClose) : ThinkingStart(t) < j })

\* the plain chat branch
FinalizeChat(rq, msg) ==
  LET t == rq.fullResponseText
  IN  IF ThinkingMatches(t)
      THEN [ msg EXCEPT
               !.reasoning = Trim(SubSeq(t, ThinkingStart(t) + 1, ThinkingEnd(t) - 1)),
               !.content = Trim(SubSeq(t, 1, ThinkingStart(t) - 1)
                                \o SubSeq(t, ThinkingEnd(t) + 1, Len(t))) ]
      ELSE [ msg EXCEPT !.content = t ]

\* The project branch.  A JSON text is modelled by its tokens: "{" and "}" delimit
\* an object, "N", "E" and "F" are the members projectName, explanation and files
\* of the interpreter payload, "[fence json]" and "[fence]" are the markdown fence.
Json ==
  [ open |-> "{", close |-> "}", fenceOpen |-> "[fence json]", fenceClose |-> "[fence]",
    projectName |-> "N", explanation |-> "E", files |-> "F" ]
Members == { Json.projectName, Json.explanation, Json.files }

\* the interpreter payload: its members, and as the text of the stream - whole (text),
\* split in two (head, tail), and as an object without explanation and files (incomplete)
Payload ==
  [ projectName |-> << "Button Demo" >>,
    explanation |-> << "Added a button." >>,
    files |-> << [ path |-> << "index.html" >>, content |-> << "<button>Click</button>" >> ] >>,
    text |-> << Json.open, Json.projectName, Json.explanation, Json.files, Json.close >>,
    head |-> << Json.open, Json.projectName >>,
    tail |-> << Json.explanation, Json.files, Json.close >>,
    incomplete |-> << Json.open, Json.projectName, Json.close >> ]

\* cleanedJsonString: the fenced block if there is one, else first "{" to last "}"
CleanedJsonString(text) ==
  LET t == Trim(text)
      fenced == \E i \in Positions(t, Json.fenceOpen) : \E j \in Positions(t, Json.fenceClose) : i < j
      fi == MinOf({ i \in Positions(t, Json.fenceOpen) : \E j \in Positions(t, Json.fenceClose) : i < j })
      fj == MinOf({ j \in Positions(t, Json.fenceClose) : fi < j })
      inner == Trim(SubSeq(t, fi + 1, fj - 1))
      braced == Positions(t, Json.open) # {} /\ Positions(t, Json.close) # {}
                /\ MaxOf(Positions(t, Json.close)) > MinOf(Positions(t, Json.open))
  IN  IF fenced /\ Len(inner) > 0 THEN inner
      ELSE IF braced
           THEN SubSeq(t, MinOf(Positions(t, Json.open)), MaxOf(Positions(t, Json.close)))
           ELSE t

\* JSON.parse succeeds on an object of members
JsonParses(c) ==
  /\ Len(c) >= 2
  /\ c[1] = Json.open
  /\ c[Len(c)] = Json.close
  /\ \A i \in 2..(Len(c) - 1) : c[i] \in Members

JsonHas(c, member) == \E i \in 2..(Len(c) - 1) : c[i] = member

\* the merge loop leaving at the first entry findAndUpdateFile returns false for
RECURSIVE MergeFilesUntilFailure(_, _, _)
MergeFilesUntilFailure(files, entries, lastUpdatedFile) ==
  IF entries = << >>
  THEN [ files |-> files, lastUpdatedFile |-> lastUpdatedFile, returned |-> << >> ]
  ELSE LET r == findAndUpdateFile(files, entries[1].path, entries[1].content)
           rest == MergeFilesUntilFailure(r.nodes, IF r.returned THEN Tail(entries) ELSE << >>,
                                          IF r.returned THEN entries[1].path ELSE lastUpdatedFile)
       IN  [ rest EXCEPT !.returned = << r.returned >> \o @ ]

\* parsedResponse.files.forEach(file => { if (findAndUpdateFile(...)) lastUpdatedFile = file.path })
RECURSIVE MergeFiles(_, _, _)
MergeFiles(files, entries, lastUpdatedFile) ==
  IF entries = << >>
  THEN [ files |-> files, lastUpdatedFile |-> lastUpdatedFile, returned |-> << >> ]
  ELSE LET r == findAndUpdateFile(files, entries[1].path, entries[1].content)
           rest == MergeFiles(r.nodes, Tail(entries),
                              IF r.returned THEN entries[1].path ELSE lastUpdatedFile)
       IN  [ rest EXCEPT !.returned = << r.returned >> \o @ ]

\* parsedResponse.files && parsedResponse.explanation && parsedResponse.projectName
PayloadComplete(rq) ==
  LET c == CleanedJsonString(rq.fullResponseText)
  IN  /\ JsonParses(c)
      /\ JsonHas(c, Json.files) /\ JsonHas(c, Json.explanation) /\ JsonHas(c, Json.projectName)

\* projectForUpdate after the merge loop, and lastUpdatedFile
ProjectMerge(prev) == MergeFiles(prev.project.files, Payload.files, << "index.html" >>)
projectForUpdate(prev) ==
  [ prev.project EXCEPT !.name = Payload.projectName, !.files = ProjectMerge(prev).files ]

FinalizeProject(rq, prev, msg) ==
  LET c == CleanedJsonString(rq.fullResponseText)
  IN  IF ~ JsonParses(c)
      THEN [ msg EXCEPT !.content = Text.parseFailed \o rq.fullResponseText ]
      ELSE IF PayloadComplete(rq)
           THEN [ msg EXCEPT !.content = Payload.explanation, !.project = projectForUpdate(prev) ]
           ELSE [ msg EXCEPT !.content = Text.badFormat \o rq.fullResponseText ]

\* Array.from(new Map(items.map(i => [i.web?.uri, i])).values()).filter(i => i.web?.uri):
\* a Map keeps the position of the first entry of a key and the value of the last
RECURSIVE UniqueChunks(_, _)
UniqueChunks(items, seen) ==
  IF items = << >> THEN << >>
  ELSE IF items[1].uri \in seen THEN UniqueChunks(Tail(items), seen)
       ELSE LET same == { i \in 1..Len(items) : items[i].uri = items[1].uri }
                kept == items[MaxOf(same)]
            IN  (IF kept.uri # "" THEN << kept >> ELSE << >>)
                \o UniqueChunks(Tail(items), seen \cup { items[1].uri })

WithGrounding(rq, msg) ==
  IF Len(rq.groundingChunks) > 0
  THEN [ msg EXCEPT !.groundingChunks =
           [ present |-> TRUE, items |-> UniqueChunks(rq.groundingChunks, {}) ] ]
  ELSE msg

finalUpdater(rq, prev) ==
  IF HasLastModel(prev)
  THEN LET lastMsg == LastMessage(prev)
           branch ==
             IF rq.isImageRequest \/ rq.isVideoRequest THEN FinalizeMedia(rq, lastMsg)
             ELSE IF rq.isInterpreterRequest /\ prev.project.present
                  THEN FinalizeProject(rq, prev, lastMsg)
                  ELSE FinalizeChat(rq, lastMsg)
       IN  ReplaceLast(prev, [ WithGrounding(rq, branch) EXCEPT !.isThinking = FALSE ])
  ELSE prev

\* finalUpdater reaches setActiveInterpreterFile and setPendingProjectUpdate
SetsPendingProject(rq, prev) ==
  /\ HasLastModel(prev)
  /\ ~ (rq.isImageRequest \/ rq.isVideoRequest)
  /\ rq.isInterpreterRequest /\ prev.project.present
  /\ PayloadComplete(rq)

errorUpdater(prev) ==
  IF HasLastModel(prev)
  THEN ReplaceLast(prev, [ LastMessage(prev) EXCEPT !.content = Text.error, !.isThinking = FALSE ])
  ELSE prev

(***************************************************************************)
(* handleStopGeneration                                                     *)
(***************************************************************************)
\* the session mapper with the isLoading test of line 495 left out
StopNoticeWithoutLoadingTest(chat) ==
  IF HasLastModel(chat)
  THEN ReplaceLast(chat, [ LastMessage(chat) EXCEPT !.content = Text.stopped, !.isThinking = FALSE ])
  ELSE chat

StopNotice(chat) ==
  IF HasLastModel(chat) /\ isLoading
  THEN ReplaceLast(chat, [ LastMessage(chat) EXCEPT !.content = Text.stopped, !.isThinking = FALSE ])
  ELSE chat

\* a stop with no request in flight counts as a UI operation of its own
HandleStopGeneration ==
  /\ Running # {} \/ Events < MaxEvents
  /\ Settled
  /\ uiOps' = IF Running = {} THEN uiOps + 1 ELSE uiOps
  /\ reqs' = [ r \in Reqs |->
                IF reqs[r].status = "running"
                THEN [ reqs[r] EXCEPT !.aborted = (@ \/ r = abortControllerRef),
                                      !.stopped = TRUE ]
                ELSE reqs[r] ]
  /\ abortControllerRef' = Null
  /\ isLoading' = FALSE
  /\ chatHistory' = MapChat(chatHistory, activeChatId, StopNotice)
  /\ syncPending' = (syncPending \/ (HasChat(chatHistory, activeChatId)
                                      /\ HasLastModel(activeChat) /\ isLoading))
  /\ lastOp' = "stop"
  /\ UNCHANGED << appVariant, activeChatId, isCodeInterpreterToggled, isDeepResearchToggled,
                  isImageToolActive, isVideoToolActive, selectedModel, clock >>
  /\ UNCHANGED << interpreterVars, functionVars, localStorage >>

(***************************************************************************)
(* The chunk callback passed to generateChatResponse                        *)
(***************************************************************************)
Chunk(text, parts, citations) == [ text |-> text, parts |-> parts, groundingChunks |-> citations ]

\* the local variables of handleSendMessage after onChunk(chunk)
OnChunk(rq, chunk) ==
  [ rq EXCEPT
      !.fullResponse = [ present |-> TRUE, text |-> chunk.text, parts |-> chunk.parts ],
      !.finalParts = chunk.parts,
      !.fullResponseText = @ \o chunk.text,
      !.groundingChunks = @ \o chunk.groundingChunks,
      !.nChunks = @ + 1,
      !.streamed = @ \o chunk.text,
      !.chunksAfterAbort = IF rq.aborted THEN @ + 1 ELSE @ ]

\* a callback without the test
EchoesAlways(rq) == TRUE

\* !isInterpreterRequest && !isImageEditModel && !isTextToImageModel && !isVideoModel
Echoes(rq) ==
  /\ ~ rq.isInterpreterRequest
  /\ ~ isImageEditModel(rq.model)
  /\ ~ isTextToImageModel(rq.model)
  /\ ~ isVideoModel(appVariant, rq.model)

\* updater: the live echo of the accumulated text
updater(text, prevSession) ==
  IF HasLastModel(prevSession)
  THEN ReplaceLast(prevSession, [ LastMessage(prevSession) EXCEPT !.content = text ])
  ELSE prevSession

\* an echo of the text of the chunk alone
ChunkHistoryOfLastChunk(rq, chunk) ==
  IF Echoes(rq)
  THEN MapChat(chatHistory, rq.chatId, LAMBDA c : updater(chunk.text, c))
  ELSE chatHistory

\* an echo into the session that is active when the chunk arrives
ChunkHistoryOfActiveChat(rq, chunk) ==
  IF Echoes(rq)
  THEN MapChat(chatHistory, activeChatId,
               LAMBDA c : updater(rq.fullResponseText \o chunk.text, c))
  ELSE chatHistory

\* the session list after the callback's setChatHistory
ChunkHistory(rq, chunk) ==
  IF Echoes(rq)
  THEN MapChat(chatHistory, rq.chatId, LAMBDA c : updater(rq.fullResponseText \o chunk.text, c))
  ELSE chatHistory

\* the active session object is replaced by a request's update
Replaces(rq) ==
  rq.chatId = activeChatId /\ HasChat(chatHistory, rq.chatId) /\ HasLastModel(activeChat)

(***************************************************************************)
(* The catch and finally blocks of handleSendMessage                        *)
(***************************************************************************)
\* if (fullResponse) { finalParts = ...parts || finalParts; fullResponseText = ...text || ... }
FinallyLocals(rq) ==
  IF rq.fullResponse.present
  THEN [ rq EXCEPT
           !.finalParts = rq.fullResponse.parts,
           !.fullResponseText =
              IF (appVariant = 1 \/ rq.isImageRequest \/ rq.isVideoRequest)
                 /\ Len(rq.fullResponse.text) > 0
              THEN rq.fullResponse.text
              ELSE @ ]
  ELSE rq

\* kind: how the awaited adapter call ended - "ok", "error" (any other error), "abort"
AfterCatch(rq, history, kind) ==
  IF kind = "error" THEN MapChat(history, rq.chatId, errorUpdater) ELSE history

AfterFinally(rq, history, kind) ==
  IF rq.aborted THEN AfterCatch(rq, history, kind)
  ELSE MapChat(AfterCatch(rq, history, kind), rq.chatId,
               LAMBDA c : finalUpdater(FinallyLocals(rq), c))

\* a finally block that leaves the loading flag as it is
EndRequestWithoutClearing(r, rq, history, echoed, kind) ==
  /\ chatHistory' = AfterFinally(rq, history, kind)
  /\ UNCHANGED isLoading
  /\ reqs' = [ reqs EXCEPT ![r] =
       [ (IF rq.aborted THEN rq ELSE FinallyLocals(rq)) EXCEPT
           !.status = "ended",
           !.stage = "-",
           !.outcome = kind,
           !.finalized = ~ rq.aborted ] ]
  /\ syncPending' = (syncPending \/ ((kind = "error" \/ ~ rq.aborted \/ echoed) /\ Replaces(rq)))
  /\ lastOp' = "step"
  /\ LET prev == FindChat(AfterCatch(rq, history, kind), rq.chatId)
     IN  IF ~ rq.aborted /\ HasChat(history, rq.chatId)
            /\ SetsPendingProject(FinallyLocals(rq), prev)
         THEN /\ pendingProjectUpdate' = projectForUpdate(prev)
              /\ activeInterpreterFile' = ProjectMerge(prev).lastUpdatedFile
              /\ isCodePanelVisible' = TRUE
         ELSE UNCHANGED interpreterVars
  /\ UNCHANGED << functionVars, localStorage >>
  /\ UNCHANGED << appVariant, activeChatId, abortControllerRef, isCodeInterpreterToggled,
                  isDeepResearchToggled, isImageToolActive, isVideoToolActive,
                  selectedModel, clock, uiOps >>

\* the rest of handleSendMessage once the adapter call of request r has ended;
\* rq and history are the request and the session list as the segment left them
EndRequest(r, rq, history, echoed, kind) ==
  /\ chatHistory' = AfterFinally(rq, history, kind)
  /\ isLoading' = FALSE
  /\ reqs' = [ reqs EXCEPT ![r] =
       [ (IF rq.aborted THEN rq ELSE FinallyLocals(rq)) EXCEPT
           !.status = "ended",
           !.stage = "-",
           !.outcome = kind,
           !.finalized = ~ rq.aborted ] ]
  /\ syncPending' = (syncPending \/ ((kind = "error" \/ ~ rq.aborted \/ echoed) /\ Replaces(rq)))
  /\ lastOp' = "step"
  /\ LET prev == FindChat(AfterCatch(rq, history, kind), rq.chatId)
     IN  IF ~ rq.aborted /\ HasChat(history, rq.chatId)
            /\ SetsPendingProject(FinallyLocals(rq), prev)
         THEN /\ pendingProjectUpdate' = projectForUpdate(prev)
              /\ activeInterpreterFile' = ProjectMerge(prev).lastUpdatedFile
              /\ isCodePanelVisible' = TRUE
         ELSE UNCHANGED interpreterVars
  /\ UNCHANGED << functionVars, localStorage >>
  /\ UNCHANGED << appVariant, activeChatId, abortControllerRef, isCodeInterpreterToggled,
                  isDeepResearchToggled, isImageToolActive, isVideoToolActive,
                  selectedModel, clock, uiOps >>

\* a segment of the adapter call that suspends again
ContinueRequest(r, rq, history, echoed) ==
  /\ chatHistory' = history
  /\ reqs' = [ reqs EXCEPT ![r] = rq ]
  /\ syncPending' = (syncPending \/ (echoed /\ Replaces(rq)))
  /\ lastOp' = "step"
  /\ UNCHANGED << appVariant, activeChatId, isLoading, abortControllerRef,
                  isCodeInterpreterToggled, isDeepResearchToggled, isImageToolActive,
                  isVideoToolActive, selectedModel, clock, uiOps >>
  /\ UNCHANGED << interpreterVars, functionVars, localStorage >>

(***************************************************************************)
(* The adapter calls (services/geminiService), one action per resumption    *)
(***************************************************************************)
\* the text deltas the k-th chunk of a stream is drawn from
ChunkTexts(k) == IF k = 1 THEN { EmptyText, Hi } ELSE { EmptyText, There }

\* the text deltas the k-th chunk of a stream is drawn from when the code interpreter
\* is on (the system instruction asks for the JSON payload)
ProjectChunkTexts(k) ==
  IF k = 1 THEN { Payload.text, Payload.head, Payload.incomplete, Hi }
  ELSE { Payload.tail, << Json.close >> }

\* the text deltas the k-th chunk of a stream is drawn from when the system instruction
\* asks for the reasoning inside <thinking> tags (line 643: thinking active, plain chat)
ThinkingChunkTexts(k) ==
  LET thought == << Text.thinkingOpen, " ", "r", Text.thinkingClose >>
  IN  IF k = 1 THEN { thought, thought \o There } ELSE { EmptyText, There }

StreamChunks ==
  { Chunk(t, IF Len(t) > 0 THEN << TextPart(t) >> ELSE << >>, << >>) :
      t \in ChunkTexts(1) \cup ChunkTexts(2) \cup ProjectChunkTexts(1) \cup ProjectChunkTexts(2)
            \cup ThinkingChunkTexts(1) }
EditResponses ==
  { Chunk(EmptyText, << InlinePart("image/png") >>, << >>),
    Chunk(Hi, << TextPart(Hi), InlinePart("image/png") >>, << >>) }
ImageResults == { << >>, << InlinePart("image/png") >> }

Awaiting(r, stages) == reqs[r].status = "running" /\ reqs[r].stage \in stages /\ Settled

\* generateChatResponse: await ai.models.generateContentStream(params) resolved;
\* the loop tests signal.aborted before it awaits iterator.next()
StreamConnected(r) ==
  /\ Awaiting(r, { "connect" })
  /\ ContinueRequest(r, [ reqs[r] EXCEPT !.stage = IF reqs[r].aborted THEN "returning" ELSE "next" ],
                     chatHistory, FALSE)

\* await iterator.next() resolved with a value: onChunk(value), then the loop test
StreamChunk(r, chunk) ==
  /\ Awaiting(r, { "next" })
  /\ Events < MaxEvents
  /\ chunk.text \in (IF reqs[r].isInterpreterRequest
                      THEN ProjectChunkTexts(reqs[r].nChunks + 1)
                      ELSE IF reqs[r].thinkingAsked
                      THEN ThinkingChunkTexts(reqs[r].nChunks + 1)
                      ELSE ChunkTexts(reqs[r].nChunks + 1))
  /\ ContinueRequest(r, [ OnChunk(reqs[r], chunk) EXCEPT
                            !.stage = IF reqs[r].aborted THEN "returning" ELSE "next" ],
                     ChunkHistory(reqs[r], chunk), Echoes(reqs[r]))

\* await iterator.next() resolved with done: break, return
StreamDone(r) ==
  /\ Awaiting(r, { "next" })
  /\ EndRequest(r, reqs[r], chatHistory, FALSE, "ok")

\* await iterator.return(undefined) resolved: throw AbortError
StreamReturned(r) ==
  /\ Awaiting(r, { "returning" })
  /\ EndRequest(r, reqs[r], chatHistory, FALSE, "abort")

\* image edit models: await ai.models.generateContent(params) resolved: onChunk(response)
EditResponse(r, response) ==
  /\ Awaiting(r, { "editGen" })
  /\ EndRequest(r, OnChunk(reqs[r], response), ChunkHistory(reqs[r], response),
                Echoes(reqs[r]), "ok")

\* generateImage: await ai.models.generateImages resolved, then the signal test
ImageResponse(r, parts) ==
  /\ Awaiting(r, { "image" })
  /\ IF reqs[r].aborted
     THEN EndRequest(r, reqs[r], chatHistory, FALSE, "abort")
     ELSE EndRequest(r, [ reqs[r] EXCEPT !.fullResponse =
                            [ present |-> TRUE, text |-> EmptyText, parts |-> parts ] ],
                     chatHistory, FALSE, "ok")

\* generateVideo: generateVideos or a poll of the operation resolved; the signal is
\* tested in the polling loop and after it
VideoProgress(r, next) ==
  /\ Awaiting(r, { "videoStart", "videoPoll" })
  /\ next \in { "videoPoll", "videoDownload" } \ { reqs[r].stage }
  /\ IF reqs[r].aborted
     THEN EndRequest(r, reqs[r], chatHistory, FALSE, "abort")
     ELSE ContinueRequest(r, [ reqs[r] EXCEPT !.stage = next ], chatHistory, FALSE)

\* generateVideo: the download and its conversion resolved; no signal test follows
VideoDownloaded(r) ==
  /\ Awaiting(r, { "videoDownload" })
  /\ EndRequest(r, [ reqs[r] EXCEPT !.fullResponse =
                       [ present |-> TRUE, text |-> VideoAdapterText,
                         parts |-> << InlinePart("video/mp4") >> ] ],
                chatHistory, FALSE, "ok")

\* a catch block that calls generateChatResponse again after an error
AdapterErrorWithRetry(r) ==
  /\ Awaiting(r, { "connect", "next", "editGen", "image", "videoStart", "videoPoll",
                   "videoDownload" })
  /\ ContinueRequest(r, [ reqs[r] EXCEPT !.stage = "connect", !.calls = @ + 1 ],
                     chatHistory, FALSE)

\* any awaited call of the adapter rejects with an error that is not an AbortError
AdapterError(r) ==
  /\ Awaiting(r, { "connect", "next", "editGen", "image", "videoStart", "videoPoll",
                   "videoDownload" })
  /\ EndRequest(r, reqs[r], chatHistory, FALSE, "error")

(***************************************************************************)
(* Session and mode handlers                                                *)
(***************************************************************************)
ChatIds == { chatHistory[i].id : i \in 1..Len(chatHistory) }

RECURSIVE FilterOut(_, _)
FilterOut(history, id) ==
  IF history = << >> THEN << >>
  ELSE (IF history[1].id = id THEN << >> ELSE << history[1] >>) \o FilterOut(Tail(history), id)

\* the second App drops the empty session that is being left
HandleSelectChat(id) ==
  LET current == FindChat(chatHistory, activeChatId)
      drops == appVariant = 2 /\ HasChat(chatHistory, activeChatId)
               /\ Len(current.messages) = 0 /\ current.id # id
  IN  /\ Events < MaxEvents
      /\ Settled
      /\ uiOps' = uiOps + 1
      /\ id \in ChatIds
      /\ id # activeChatId
      /\ chatHistory' = IF drops THEN FilterOut(chatHistory, activeChatId) ELSE chatHistory
      /\ activeChatId' = id
      /\ isCodePanelVisible' = FALSE
      /\ syncPending' = TRUE
      /\ lastOp' = "step"
      /\ UNCHANGED << appVariant, isLoading, abortControllerRef, isCodeInterpreterToggled,
                      isDeepResearchToggled, isImageToolActive, isVideoToolActive,
                      selectedModel, reqs, clock >>
      /\ UNCHANGED << pendingProjectUpdate, activeInterpreterFile, functionVars, localStorage >>

HandleNewChat ==
  /\ Events < MaxEvents
  /\ Settled
  /\ uiOps' = uiOps + 1
  /\ IF appVariant = 1
     THEN /\ activeChatId # Null
          /\ activeChatId' = Null
          /\ UNCHANGED << chatHistory, clock >>
     ELSE /\ NewChatNeeded
          /\ chatHistory' = << ChatSession(clock + 1, << "New Chat" >>, << >>) >> \o chatHistory
          /\ activeChatId' = clock + 1
          /\ clock' = clock + 1
  /\ isCodePanelVisible' = FALSE
  /\ isDeepResearchToggled' = FALSE
  /\ isImageToolActive' = FALSE
  /\ isVideoToolActive' = FALSE
  /\ syncPending' = TRUE
  /\ lastOp' = "step"
  /\ UNCHANGED << appVariant, isLoading, abortControllerRef, isCodeInterpreterToggled,
                  selectedModel, reqs >>
  /\ UNCHANGED << pendingProjectUpdate, activeInterpreterFile, functionVars, localStorage >>

\* handleDeleteChat(id) followed by confirmDeleteChat.  The second App calls
\* handleNewChat inside the updater passed to setChatHistory when the last session goes:
\* React either runs the updater while it renders, and the session handleNewChat adds
\* is in the list (keepsNewChat), or has run it eagerly in the event handler and takes
\* the filtered list it returned as the new state, without that session.
ConfirmDeleteChat(id, keepsNewChat) ==
  LET newHistory == FilterOut(chatHistory, id)
      wasActive == activeChatId = id
      createsChat == appVariant = 2 /\ wasActive /\ newHistory = << >> /\ NewChatNeeded
      newChat == ChatSession(clock + 1, << "New Chat" >>, << >>)
  IN  /\ Events < MaxEvents
      /\ Settled
      /\ id \in ChatIds
      /\ createsChat \/ keepsNewChat
      /\ uiOps' = uiOps + 1
      /\ chatHistory' = IF createsChat /\ keepsNewChat THEN << newChat >> \o newHistory
                        ELSE newHistory
      /\ activeChatId' = IF ~ wasActive THEN activeChatId
                         ELSE IF appVariant = 1 THEN Null
                         ELSE IF createsChat THEN clock + 1
                         ELSE IF Len(newHistory) > 0 THEN newHistory[1].id ELSE Null
      /\ clock' = IF createsChat THEN clock + 1 ELSE clock
      /\ isCodePanelVisible' = IF createsChat THEN FALSE ELSE isCodePanelVisible
      /\ isDeepResearchToggled' = IF createsChat THEN FALSE ELSE isDeepResearchToggled
      /\ isImageToolActive' = IF createsChat THEN FALSE ELSE isImageToolActive
      /\ isVideoToolActive' = IF createsChat THEN FALSE ELSE isVideoToolActive
      /\ syncPending' = (syncPending \/ wasActive)
      /\ lastOp' = "step"
      /\ UNCHANGED << appVariant, isLoading, abortControllerRef, isCodeInterpreterToggled,
                      selectedModel, reqs >>
      /\ UNCHANGED << pendingProjectUpdate, activeInterpreterFile, functionVars, localStorage >>

\* confirmClearHistory; the second App calls handleNewChat after the two setters
ConfirmClearHistory ==
  LET createsChat == appVariant = 2 /\ NewChatNeeded
  IN  /\ Events < MaxEvents
      /\ Settled
      /\ uiOps' = uiOps + 1
      /\ chatHistory' = IF createsChat THEN << ChatSession(clock + 1, << "New Chat" >>, << >>) >>
                        ELSE << >>
      /\ activeChatId' = IF createsChat THEN clock + 1 ELSE Null
      /\ clock' = IF createsChat THEN clock + 1 ELSE clock
      /\ isCodePanelVisible' = IF createsChat THEN FALSE ELSE isCodePanelVisible
      /\ isDeepResearchToggled' = IF createsChat THEN FALSE ELSE isDeepResearchToggled
      /\ isImageToolActive' = IF createsChat THEN FALSE ELSE isImageToolActive
      /\ isVideoToolActive' = IF createsChat THEN FALSE ELSE isVideoToolActive
      /\ syncPending' = (syncPending \/ activeChatId # Null \/ createsChat)
      /\ lastOp' = "step"
      /\ UNCHANGED << appVariant, isLoading, abortControllerRef, isCodeInterpreterToggled,
                      selectedModel, reqs >>
      /\ UNCHANGED << pendingProjectUpdate, activeInterpreterFile, functionVars, localStorage >>

\* handleStreamComplete, called by the interval of the mounted CodeInterpreterPanel once
\* it has shown the code of streamingTarget
HandleStreamComplete ==
  /\ Settled
  /\ isCodePanelVisible
  /\ pendingProjectUpdate.present
  /\ chatHistory' = MapChat(chatHistory, activeChatId,
                            LAMBDA chat : [ chat EXCEPT !.project = pendingProjectUpdate ])
  /\ pendingProjectUpdate' = NoProject
  /\ syncPending' = (syncPending \/ HasChat(chatHistory, activeChatId))
  /\ lastOp' = "step"
  /\ UNCHANGED << appVariant, activeChatId, isLoading, abortControllerRef,
                  isCodeInterpreterToggled, isDeepResearchToggled, isImageToolActive,
                  isVideoToolActive, selectedModel, reqs, clock, uiOps >>
  /\ UNCHANGED << isCodePanelVisible, activeInterpreterFile, functionVars, localStorage >>

\* the four toggle handlers: the toggled flag is negated; turning it on turns the others off
ToggleFrame ==
  /\ Events < MaxEvents
  /\ uiOps' = uiOps + 1
  /\ lastOp' = "toggle"
  /\ UNCHANGED << appVariant, chatHistory, activeChatId, isLoading, abortControllerRef,
                  selectedModel, syncPending, reqs, clock >>
  /\ UNCHANGED << interpreterVars, functionVars, localStorage >>

handleToggleCodeInterpreter ==
  /\ ToggleFrame
  /\ Settled
  /\ isCodeInterpreterToggled' = ~ isCodeInterpreterToggled
  /\ isDeepResearchToggled' = IF ~ isCodeInterpreterToggled THEN FALSE ELSE isDeepResearchToggled
  /\ isImageToolActive' = IF ~ isCodeInterpreterToggled THEN FALSE ELSE isImageToolActive
  /\ isVideoToolActive' = IF ~ isCodeInterpreterToggled THEN FALSE ELSE isVideoToolActive

handleToggleDeepResearch ==
  /\ ToggleFrame
  /\ Settled
  /\ isDeepResearchToggled' = ~ isDeepResearchToggled
  /\ isCodeInterpreterToggled' = IF ~ isDeepResearchToggled THEN FALSE ELSE isCodeInterpreterToggled
  /\ isImageToolActive' = IF ~ isDeepResearchToggled THEN FALSE ELSE isImageToolActive
  /\ isVideoToolActive' = IF ~ isDeepResearchToggled THEN FALSE ELSE isVideoToolActive

\* handleToggleImageTool with the three setters of lines 914-916 left out
handleToggleImageToolWithoutClearing ==
  /\ ToggleFrame
  /\ Settled
  /\ isImageToolActive' = ~ isImageToolActive
  /\ UNCHANGED << isCodeInterpreterToggled, isDeepResearchToggled, isVideoToolActive >>

handleToggleImageTool ==
  /\ ToggleFrame
  /\ Settled
  /\ isImageToolActive' = ~ isImageToolActive
  /\ isCodeInterpreterToggled' = IF ~ isImageToolActive THEN FALSE ELSE isCodeInterpreterToggled
  /\ isDeepResearchToggled' = IF ~ isImageToolActive THEN FALSE ELSE isDeepResearchToggled
  /\ isVideoToolActive' = IF ~ isImageToolActive THEN FALSE ELSE isVideoToolActive

handleToggleVideoTool ==
  /\ ToggleFrame
  /\ Settled
  /\ isVideoToolActive' = ~ isVideoToolActive
  /\ isCodeInterpreterToggled' = IF ~ isVideoToolActive THEN FALSE ELSE isCodeInterpreterToggled
  /\ isDeepResearchToggled' = IF ~ isVideoToolActive THEN FALSE ELSE isDeepResearchToggled
  /\ isImageToolActive' = IF ~ isVideoToolActive THEN FALSE ELSE isImageToolActive

\* HeaderModelSelector: setSelectedModel with one of the offered options
ModelChoices == { Model.GEMINI_2_5_FLASH, Model.GEMINI_2_5_FLASH_IMAGE_PREVIEW }

SelectModel(m) ==
  /\ Events < MaxEvents
  /\ Settled
  /\ uiOps' = uiOps + 1
  /\ m \in combinedModelOptions
  /\ m # selectedModel
  /\ selectedModel' = m
  /\ lastOp' = "step"
  /\ UNCHANGED << appVariant, chatHistory, activeChatId, isLoading, abortControllerRef,
                  isCodeInterpreterToggled, isDeepResearchToggled, isImageToolActive,
                  isVideoToolActive, syncPending, reqs, clock >>
  /\ UNCHANGED << interpreterVars, functionVars, localStorage >>

(***************************************************************************)
(* Specification                                                            *)
(***************************************************************************)
Prompts == { EmptyText, Hello }
AttachmentLists == { << >> }

\* the state when App is mounted; history and active: the items 'chatHistory' and
\* 'activeChatId' of localStorage (the ids of the sessions are 1, 2, ...); toggled: the
\* code-interpreter flag; tree and citations: the arguments the file-tree and citation
\* functions are applied to
InitFrom(history, active, toggled, model, tree, citations) ==
  /\ appVariant \in { 1, 2 }
  /\ chatHistory = history
  /\ activeChatId = active
  /\ isLoading = FALSE
  /\ abortControllerRef = Null
  /\ isCodeInterpreterToggled = toggled
  /\ isDeepResearchToggled = FALSE
  /\ isImageToolActive = FALSE
  /\ isVideoToolActive = FALSE
  /\ selectedModel = model
  /\ syncPending = (active # Null)
  /\ reqs = [ r \in Reqs |-> NoReq ]
  /\ clock = Len(history)
  /\ uiOps = 0
  /\ lastOp = "step"
  /\ localStorage = [ chatHistory |-> history, activeChatId |-> active ]
  /\ pendingProjectUpdate = NoProject
  /\ isCodePanelVisible = FALSE
  /\ activeInterpreterFile = << "index.html" >>
  /\ fileTree = tree
  /\ call = NoCall
  /\ citationList = citations
  /\ uniqueChunks = [ present |-> FALSE, items |-> << >> ]

\* the same with nothing in localStorage
InitWith(toggled, model, tree, citations) ==
  InitFrom(<< >>, Null, toggled, model, tree, citations)

Init == InitWith(FALSE, Model.GEMINI_2_5_FLASH, initialFiles, << >>)

Next ==
  \/ \E p \in Prompts, a \in AttachmentLists : HandleSendMessageAccepted(p, a)
  \/ \E p \in Prompts, a \in AttachmentLists : HandleSendMessageRejected(p, a)
  \/ HandleStopGeneration
  \/ \E r \in Running : StreamConnected(r)
  \/ \E r \in Running, c \in StreamChunks : StreamChunk(r, c)
  \/ \E r \in Running : StreamDone(r)
  \/ \E r \in Running : StreamReturned(r)
  \/ \E r \in Running, c \in EditResponses : EditResponse(r, c)
  \/ \E r \in Running, ps \in ImageResults : ImageResponse(r, ps)
  \/ \E r \in Running, n \in { "videoPoll", "videoDownload" } : VideoProgress(r, n)
  \/ \E r \in Running : VideoDownloaded(r)
  \/ \E r \in Running : AdapterError(r)
  \/ \E id \in ChatIds : HandleSelectChat(id)
  \/ HandleNewChat
  \/ handleToggleCodeInterpreter
  \/ handleToggleDeepResearch
  \/ handleToggleImageTool
  \/ handleToggleVideoTool
  \/ \E m \in ModelChoices : SelectModel(m)
  \/ RunEffects

Spec == Init /\ [][Next]_vars

\* the effects scheduled by a commit run: React flushes passive effects before it
\* handles the next event
SpecEffects == Init /\ [][Next]_vars /\ WF_vars(RunEffects)

\* the awaited adapter call of request r resolves or rejects
AdapterReturns(r) ==
  \/ StreamConnected(r)
  \/ \E c \in StreamChunks : StreamChunk(r, c)
  \/ StreamDone(r)
  \/ StreamReturned(r)
  \/ \E c \in EditResponses : EditResponse(r, c)
  \/ \E ps \in ImageResults : ImageResponse(r, ps)
  \/ \E n \in { "videoPoll", "videoDownload" } : VideoProgress(r, n)
  \/ VideoDownloaded(r)
  \/ AdapterError(r)

\* sends (at most MaxSends of them), stops and a new chat with the streaming adapter
\* call alone
NextRequests ==
  \/ /\ Cardinality(Accepted) < MaxSends
     /\ \E p \in Prompts, a \in AttachmentLists : HandleSendMessageAccepted(p, a)
  \/ HandleStopGeneration
  \/ HandleNewChat
  \/ \E r \in Running : StreamConnected(r)
  \/ \E r \in Running, c \in StreamChunks : StreamChunk(r, c)
  \/ \E r \in Running : StreamDone(r)
  \/ \E r \in Running : StreamReturned(r)
  \/ \E r \in Running : AdapterError(r)
  \/ RunEffects

\* every adapter call eventually returns or throws, and the effects of a commit run:
\* the continuation of a settled promise and a scheduled effect are tasks that the
\* event loop runs, whatever the user does in between
SpecLive ==
  /\ Init /\ [][NextRequests]_vars
  /\ WF_vars(RunEffects)
  /\ \A r \in Reqs : WF_vars(AdapterReturns(r))

\* the same with the code interpreter on when the first message is sent
SpecProjectRequests ==
  InitWith(TRUE, Model.GEMINI_2_5_FLASH, initialFiles, << >>) /\ [][NextRequests]_vars

\* prompts of 5, 40 and 41 UTF-16 code units
TitlePrompts == { Hello, [ i \in 1..40 |-> "x" ], [ i \in 1..41 |-> "x" ] }

\* sends of these prompts and new chats, with a streaming call that ends at once
NextTitles ==
  \/ \E p \in TitlePrompts : HandleSendMessageAccepted(p, << >>)
  \/ HandleNewChat
  \/ \E r \in Running : StreamConnected(r)
  \/ \E r \in Running : StreamDone(r)
  \/ RunEffects

SpecTitles == Init /\ [][NextTitles]_vars

\* a session as an earlier run of the App saved it: the prompt 'Hello' answered by 'Hi',
\* with the project that a send with the code interpreter on has created
SavedChat(id, hasProject) ==
  [ ChatSession(id, newTitle(Hello),
                << uiUserMessage(0 - id, Hello, << >>),
                   ChatMessage(MessageId("msg-model", 0 - id), Role.MODEL, Hi, << >>, FALSE,
                               hasProject) >>)
    EXCEPT !.project = IF hasProject THEN createNewProject(newProjectName(Hello), id)
                       ELSE NoProject ]

\* the lists of up to two saved sessions, the newest first
SavedHistories ==
  { << >> } \cup { << SavedChat(1, p) >> : p \in BOOLEAN }
  \cup { << SavedChat(2, p), SavedChat(1, q) >> : p, q \in BOOLEAN }

\* the session operations - send, select, delete, clear, new chat - with the streaming
\* adapter call and the completion of the code panel's stream
NextSessions ==
  \/ \E p \in Prompts, a \in AttachmentLists : HandleSendMessageAccepted(p, a)
  \/ \E id \in ChatIds : HandleSelectChat(id)
  \/ \E id \in ChatIds, k \in BOOLEAN : ConfirmDeleteChat(id, k)
  \/ ConfirmClearHistory
  \/ HandleNewChat
  \/ \E r \in Running : StreamConnected(r)
  \/ \E r \in Running, c \in StreamChunks : StreamChunk(r, c)
  \/ \E r \in Running : StreamDone(r)
  \/ \E r \in Running : AdapterError(r)
  \/ HandleStreamComplete
  \/ RunEffects

\* the App mounted on what an earlier run saved: a list of sessions and the active
\* session, one of them or none
SpecSessions ==
  /\ \E h \in SavedHistories :
       \E a \in { Null } \cup { h[i].id : i \in 1..Len(h) } :
         InitFrom(h, a, FALSE, Model.GEMINI_2_5_FLASH, initialFiles, << >>)
  /\ [][NextSessions]_vars

\* the tool toggles and the model selector alone, with every model of the enum
NextModes ==
  \/ handleToggleCodeInterpreter
  \/ handleToggleDeepResearch
  \/ handleToggleImageTool
  \/ handleToggleVideoTool
  \/ \E k \in DOMAIN Model : SelectModel(Model[k])
  \/ RunEffects

SpecModes == Init /\ [][NextModes]_vars

\* the program after handleToggleCodeInterpreter has turned the code interpreter on
(***************************************************************************)
(* findAndUpdateFile and the merge loop of finalUpdater, applied to the     *)
(* trees a project can hold                                                 *)
(***************************************************************************)
\* paths of up to MaxPathLen parts over two names
Paths == UNION { [ 1..n -> { "a", "b" } ] : n \in 1..MaxPathLen }

\* the entries of parsedResponse.files: { path, content }
FileEntries == [ path : Paths, content : { << "1" >>, << "2" >> } ]

\* the trees the merge loop builds from initialFiles with at most two entries
Trees ==
  LET first == { e \in FileEntries : e.content = << "1" >> }
      batches == { << >> } \cup { << e >> : e \in first } \cup { << e, f >> : e, f \in first }
  IN  { MergeFiles(initialFiles, b, << "index.html" >>).files : b \in batches }

\* one call findAndUpdateFile(nodes, path, content); nodes is updated in place
UpsertFile(path, content) ==
  LET r == findAndUpdateFile(fileTree, path, content)
  IN  /\ call = NoCall
      /\ fileTree' = r.nodes
      /\ call' = [ entries |-> << [ path |-> path, content |-> content ] >>,
                   returned |-> << r.returned >>,
                   before |-> fileTree ]
      /\ UNCHANGED << appVars, interpreterVars, citationList, uniqueChunks, localStorage >>

\* the merge loop: files.forEach(file => findAndUpdateFile(projectForUpdate.files, ...))
MergeProjectFiles(entries) ==
  LET r == MergeFiles(fileTree, entries, << "index.html" >>)
  IN  /\ call = NoCall
      /\ fileTree' = r.files
      /\ call' = [ entries |-> entries, returned |-> r.returned, before |-> fileTree ]
      /\ UNCHANGED << appVars, interpreterVars, citationList, uniqueChunks, localStorage >>

NextFiles ==
  \/ \E e \in FileEntries : UpsertFile(e.path, e.content)
  \/ \E e, f \in FileEntries : MergeProjectFiles(<< e, f >>)

SpecFiles == (\E t \in Trees : InitWith(FALSE, Model.GEMINI_2_5_FLASH, t, << >>)) /\ [][NextFiles]_vars

(***************************************************************************)
(* The grounding-chunk step of finalUpdater, applied to lists of citations  *)
(***************************************************************************)
\* lists of up to MaxCitations grounding chunks; uri "" stands for a chunk without
\* web, or with a null or empty web.uri
CitationLists ==
  UNION { [ 1..n -> [ uri : { "x", "y", "" }, title : { "1", "2" } ] ] : n \in 0..MaxCitations }

\* if (groundingChunks.length > 0) updatedMsg.groundingChunks = uniqueChunks
AttachGroundingChunks ==
  /\ ~ uniqueChunks.present
  /\ Len(citationList) > 0
  /\ uniqueChunks' = [ present |-> TRUE, items |-> UniqueChunks(citationList, {}) ]
  /\ UNCHANGED << appVars, interpreterVars, fileTree, call, citationList, localStorage >>

SpecCitations ==
  (\E l \in CitationLists : InitWith(FALSE, Model.GEMINI_2_5_FLASH, initialFiles, l)) /\ [][AttachGroundingChunks]_vars

SpecProject == InitWith(TRUE, Model.GEMINI_2_5_FLASH, initialFiles, << >>) /\ [][Next]_vars

\* the application with the Pro model selected, whose requests carry the instruction to
\* reason inside <thinking> tags
SpecThinking == InitWith(FALSE, Model.GEMINI_2_5_PRO, initialFiles, << >>) /\ [][Next]_vars

(***************************************************************************)
(* Properties                                                               *)
(***************************************************************************)

\* C1 - single flight: while isLoading is true no send is accepted, and a send that
\* returns at the guard leaves the sessions, the stored abort handle and the requests
\* (the adapter calls made) as they were
SingleFlight ==
  [][ isLoading =>
        /\ Accepted' = Accepted
        /\ (lastOp' = "rejected" => UNCHANGED << chatHistory, abortControllerRef, reqs >>) ]_vars

\* handleSendMessage was called while a request was loading, and returned at the guard
SingleFlightWitness == lastOp = "rejected" /\ isLoading /\ Running # {}

\* C2 - at most one request is in flight: never two accepted invocations of
\* handleSendMessage that have not reached their finally block
AtMostOneInFlight == Cardinality(Running) <= 1

\* C3 - cancellation leaves the stop notice: when the handler of a request that was
\* stopped in flight finishes, the trailing MODEL message of the request's session is
\* the stop notice with isThinking false
StopNoticeLeft ==
  [][ \A r \in Reqs :
        (reqs[r].status = "running" /\ reqs'[r].status = "ended" /\ reqs[r].stopped)
        => LET chat == FindChat(chatHistory', reqs[r].chatId)
           IN  /\ HasLastModel(chat)
               /\ LastMessage(chat).content = Text.stopped
               /\ ~ LastMessage(chat).isThinking ]_vars

\* C4 - no chunk is processed after cancellation: the chunk callback of a request is
\* never invoked once the request's signal is aborted
NoChunkAfterCancel == \A r \in Reqs : reqs[r].chunksAfterAbort = 0

\* C5 - finalization is skipped on cancellation: finalUpdater is never applied for a
\* request that was in flight when stop was invoked
FinalizationSkippedOnCancel == \A r \in Reqs : reqs[r].stopped => ~ reqs[r].finalized

\* C6 - error outcome: when the handler of a request whose adapter call failed with an
\* error other than cancellation, and that was not stopped, finishes, the trailing
\* MODEL message of its session is the error notice with isThinking false, and
\* isLoading is false
ErrorOutcome ==
  [][ \A r \in Reqs :
        (reqs[r].status = "running" /\ reqs'[r].status = "ended"
           /\ reqs'[r].outcome = "error" /\ ~ reqs[r].stopped)
        => LET chat == FindChat(chatHistory', reqs[r].chatId)
           IN  /\ HasLastModel(chat)
               /\ LastMessage(chat).content = Text.error
               /\ ~ LastMessage(chat).isThinking
               /\ ~ isLoading' ]_vars

\* C7 - the final chat content is the whole stream: when a plain CHAT request that
\* streamed at least one chunk, without a thinking block, ends normally, its session
\* ends with the USER message holding the prompt and one MODEL message whose content
\* is the concatenation of the chunk texts, isThinking false, no project
WholeStream ==
  [][ \A r \in Reqs :
        (reqs[r].status = "running" /\ reqs'[r].status = "ended"
           /\ reqs'[r].outcome = "ok" /\ ~ reqs[r].stopped
           /\ ~ reqs[r].isInterpreterRequest /\ ~ reqs[r].isImageRequest
           /\ ~ reqs[r].isVideoRequest /\ reqs[r].model \in chatModels
           /\ reqs'[r].nChunks >= 1
           /\ ThinkingMatches(reqs'[r].streamed) = FALSE)
        => LET msgs == FindChat(chatHistory', reqs[r].chatId).messages
               n == Len(msgs)
           IN  /\ n >= 2
               /\ msgs[n - 1].role = Role.USER
               /\ msgs[n - 1].content = reqs[r].prompt
               /\ msgs[n].role = Role.MODEL
               /\ msgs[n].content = reqs'[r].streamed
               /\ ~ msgs[n].isThinking
               /\ ~ msgs[n].project.present ]_vars

\* C8 - finalization ordering: when finalUpdater's result is committed for a
\* successful request, the loading flag has not been cleared yet
FinalizationBeforeLoadingCleared ==
  [][ \A r \in Reqs :
        (reqs[r].status = "running" /\ reqs'[r].status = "ended"
           /\ reqs'[r].outcome = "ok" /\ reqs'[r].finalized)
        => isLoading' ]_vars

\* C9 - full history is sent: for a CHAT or PROJECT send on a session that has
\* messages, the list passed to generateChatResponse is those messages followed by
\* the new user turn
FullHistorySent ==
  \A r \in Reqs :
    (reqs[r].status # "none" /\ ~ reqs[r].isImageRequest /\ ~ reqs[r].isVideoRequest
       /\ Len(reqs[r].priorMessages) > 0)
    => LET m == reqs[r].messagesForApi
           k == Len(reqs[r].priorMessages)
       IN  /\ Len(m) = k + 1
           /\ SubSeq(m, 1, k) = reqs[r].priorMessages
           /\ m[k + 1].role = Role.USER
           /\ m[k + 1].content = reqs[r].prompt

\* C10 - atomic optimistic append: once a send is accepted, the target session's
\* messages are its previous messages followed by the new USER message and the
\* placeholder MODEL message
OptimisticAppend ==
  [][ \A r \in Reqs :
        (reqs[r].status = "none" /\ reqs'[r].status = "running")
        => LET msgs == FindChat(chatHistory', reqs'[r].chatId).messages
               k == Len(reqs'[r].priorMessages)
           IN  /\ Len(msgs) = k + 2
               /\ SubSeq(msgs, 1, k) = reqs'[r].priorMessages
               /\ msgs[k + 1].id = MessageId("msg-user", r)
               /\ msgs[k + 2].id = MessageId("msg-model", r) ]_vars

\* C11 - project end to end: when a code-interpreter request whose stream delivered
\* the JSON payload (projectName, explanation, files [index.html]), in one chunk or
\* split over several, ends normally, the trailing MODEL message has the explanation
\* as content, projectFilesUpdate true, and a project whose index.html holds the
\* payload's content
ProjectEndToEnd ==
  [][ \A r \in Reqs :
        (reqs[r].status = "running" /\ reqs'[r].status = "ended"
           /\ reqs'[r].outcome = "ok" /\ ~ reqs[r].stopped
           /\ reqs[r].isInterpreterRequest
           /\ reqs'[r].streamed = Payload.text)
        => LET chat == FindChat(chatHistory', reqs[r].chatId)
               m == LastMessage(chat)
           IN  /\ HasLastModel(chat)
               /\ m.content = Payload.explanation
               /\ m.projectFilesUpdate
               /\ m.project.present
               /\ << "index.html" >> \in DOMAIN m.project.files
               /\ m.project.files[<< "index.html" >>].content = Payload.files[1].content ]_vars

\* C12 - abort idempotence: handleStopGeneration invoked while no request is in
\* flight (none sent yet, or every request has completed, failed or been stopped and
\* finished) leaves every session of chatHistory unchanged
AbortIdempotence ==
  [][ (lastOp' = "stop" /\ Running = {}) => chatHistory' = chatHistory ]_vars

\* stop was invoked with no request in flight, after a request had finished, on a
\* session whose last message is a MODEL message
AbortIdempotenceWitness ==
  /\ lastOp = "stop"
  /\ Running = {}
  /\ \E r \in Reqs : reqs[r].status = "ended" /\ reqs[r].chatId = activeChatId
  /\ HasChat(chatHistory, activeChatId)
  /\ HasLastModel(activeChat)

\* the tools that are on
ActiveTools ==
  { t \in { "codeInterpreter", "deepResearch", "imageTool", "videoTool" } :
      \/ t = "codeInterpreter" /\ isCodeInterpreterToggled
      \/ t = "deepResearch" /\ isDeepResearchToggled
      \/ t = "imageTool" /\ isImageToolActive
      \/ t = "videoTool" /\ isVideoToolActive }

\* C13 - toggle mutual exclusion: after each of the four toggle operations at most one
\* of isCodeInterpreterToggled, isDeepResearchToggled, isImageToolActive,
\* isVideoToolActive is true
ToggleMutualExclusion ==
  [][ lastOp' = "toggle" => Cardinality(ActiveTools') <= 1 ]_vars

\* the image tool was toggled on while the video tool was on (its model still selected)
ToggleMutualExclusionWitness ==
  /\ lastOp = "toggle"
  /\ isImageToolActive
  /\ selectedModel \in videoGenModels(appVariant)
  /\ ActiveTools = { "imageTool" }

\* C14 - pre-flight validation: handleSendMessage never starts a request (sets
\* isLoading, appends to a session, calls an adapter endpoint) for a send with the
\* image tool on and an image-edit model selected but no attachment, nor for a send
\* with the image tool on and a text-to-image model selected with attachments
PreflightValidation ==
  [][ \A r \in Reqs :
        (reqs[r].status = "none" /\ reqs'[r].status = "running" /\ reqs'[r].isImageRequest)
        => LET api == reqs'[r].messagesForApi
               attachments == api[Len(api)].attachments
           IN  /\ ~ (isImageEditModel(reqs'[r].model) /\ Len(attachments) = 0)
               /\ ~ (isTextToImageModel(reqs'[r].model) /\ Len(attachments) > 0) ]_vars

\* the selected model m suits the tools that are on
ModelSuits(tools, m) ==
  /\ "deepResearch" \in tools => m \in { Model.GEMINI_2_5_PRO, Model.GEMINI_2_5_FLASH }
  /\ "codeInterpreter" \in tools
       => m \in { Model.GEMINI_2_5_PRO, Model.GEMINI_2_5_FLASH, Model.GEMINI_2_5_FLASH_LITE,
                  Model.GEMINI_2_0_FLASH, Model.GEMINI_2_0_FLASH_LITE }
  /\ "imageTool" \in tools => isTextToImageModel(m) \/ isImageEditModel(m)
  /\ "videoTool" \in tools => m \in videoGenModels(appVariant)
  /\ ("imageTool" \notin tools /\ "videoTool" \notin tools)
       => ~ (isTextToImageModel(m) \/ isImageEditModel(m) \/ m \in videoGenModels(appVariant))

\* C15 - model compatibility: whenever the effects have nothing left to change, the
\* selected model suits the tools that are on (deep research: gemini-2.5-pro or
\* gemini-2.5-flash; code interpreter: one of the five Gemini chat models; image tool:
\* an image-generation or image-edit model; video tool: a video model; neither image
\* nor video tool: no multimedia model); and when an effect replaces the selected
\* model while at most one tool is on, the replacement suits the tools
ModelCompatibility ==
  [][ /\ ~ EffectsChange => ModelSuits(ActiveTools, selectedModel)
      /\ ~ EffectsChange' => ModelSuits(ActiveTools', selectedModel')
      /\ (selectedModel' # selectedModel /\ uiOps' = uiOps /\ Cardinality(ActiveTools) <= 1)
           => ModelSuits(ActiveTools, selectedModel') ]_vars

\* deep research is on and the effects are at rest two UI operations after the start,
\* with the default chat model back in place
ModelCompatibilityWitness ==
  /\ ~ EffectsChange
  /\ isDeepResearchToggled
  /\ uiOps = 2
  /\ lastOp = "step"
  /\ selectedModel = Model.GEMINI_2_5_FLASH

\* C16 - project merge safety: a call of findAndUpdateFile whose path passes through a
\* node that is a file ('a/b' where 'a' is a file) returns false and leaves the whole
\* tree as it was
FileParentRejected ==
  LET path == call.entries[1].path
      throughFile == \E i \in 1..(Len(path) - 1) :
                        /\ SubSeq(path, 1, i) \in DOMAIN call.before
                        /\ ~ call.before[SubSeq(path, 1, i)].children
  IN  (Len(call.entries) = 1 /\ throughFile)
      => (call.returned = << FALSE >> /\ fileTree = call.before)

\* findAndUpdateFile was called with 'a/b' on a tree where 'a' is a file
FileParentRejectedWitness ==
  /\ Len(call.entries) = 1
  /\ call.entries[1].path = << "a", "b" >>
  /\ << "a" >> \in DOMAIN call.before
  /\ ~ call.before[<< "a" >>].children
  /\ call.returned = << FALSE >>

\* C17 - a directory is never overwritten by a file: a call of findAndUpdateFile whose
\* path names an existing directory returns false and leaves the directory, its
\* children and the rest of the tree as they were
DirectoryNeverOverwritten ==
  LET path == call.entries[1].path
  IN  (Len(call.entries) = 1 /\ path \in DOMAIN call.before /\ call.before[path].children)
      => (call.returned = << FALSE >> /\ fileTree = call.before)

\* findAndUpdateFile was called with 'a' on a tree where 'a' is a directory holding 'b'
DirectoryNeverOverwrittenWitness ==
  /\ Len(call.entries) = 1
  /\ call.entries[1].path = << "a" >>
  /\ << "a", "b" >> \in DOMAIN call.before
  /\ call.before[<< "a" >>].children
  /\ call.returned = << FALSE >>

\* C18 - per-entry failure isolation: after the merge loop has run over a batch of two
\* entries, the tree is the tree before with the entries that can be written - no
\* file on the way, no directory at the path - written in order (the file at the
\* path, directories for the missing parts before it), an entry that cannot be
\* written changes nothing, and findAndUpdateFile returned true exactly for the
\* entries written
MergeIsolation ==
  LET CanWrite(t, path) ==
        /\ \A i \in 1..(Len(path) - 1) :
              SubSeq(path, 1, i) \in DOMAIN t => t[SubSeq(path, 1, i)].children
        /\ path \in DOMAIN t => ~ t[path].children
      Write(t, e) ==
        [ q \in DOMAIN t \cup { SubSeq(e.path, 1, i) : i \in 1..Len(e.path) } |->
            IF q = e.path THEN [ children |-> FALSE, hasContent |-> TRUE, content |-> e.content ]
            ELSE IF q \in DOMAIN t THEN t[q]
            ELSE [ children |-> TRUE, hasContent |-> FALSE, content |-> << >> ] ]
      Step(t, e) == IF CanWrite(t, e.path) THEN Write(t, e) ELSE t
      first == Step(call.before, call.entries[1])
  IN  Len(call.entries) = 2
      => /\ fileTree = Step(first, call.entries[2])
         /\ call.returned = << CanWrite(call.before, call.entries[1].path),
                               CanWrite(first, call.entries[2].path) >>

\* the merge loop ran over a batch whose first entry failed and whose second entry
\* was written
MergeIsolationWitness ==
  /\ Len(call.entries) = 2
  /\ call.returned = << FALSE, TRUE >>
  /\ fileTree # call.before

\* C19 - fallback on malformed project payload: when a code-interpreter request whose
\* accumulated text is not a JSON object with the three fields projectName,
\* explanation and files ends normally, the trailing MODEL message starts with the
\* prefix 'The AI response was not in the expected format.', has no project, and the
\* session project, the pending project update and the active file are unchanged
MalformedFallback ==
  [][ \A r \in Reqs :
        LET c == CleanedJsonString(reqs'[r].streamed)
            complete == /\ JsonParses(c)
                        /\ \A member \in Members : JsonHas(c, member)
        IN  (reqs[r].status = "running" /\ reqs'[r].status = "ended"
               /\ reqs'[r].outcome = "ok" /\ ~ reqs[r].stopped
               /\ reqs[r].isInterpreterRequest
               /\ Len(reqs'[r].streamed) > 0
               /\ ~ complete)
            => LET chat == FindChat(chatHistory', reqs[r].chatId)
                   m == LastMessage(chat)
               IN  /\ HasLastModel(chat)
                   /\ Len(m.content) > 0
                   /\ m.content[1] = Text.badFormat[1]
                   /\ ~ m.project.present
                   /\ chat.project = FindChat(chatHistory, reqs[r].chatId).project
                   /\ UNCHANGED << pendingProjectUpdate, activeInterpreterFile >> ]_vars

\* C20 - citation dedup, first occurrence wins: the list attached to the message holds,
\* in first-seen order, for each distinct usable URL of the accumulated citations the
\* first citation that carried it, and nothing else ([x, x, y, null] yields [x, y])
FirstOccurrenceWins ==
  LET usable == { i \in 1..Len(citationList) : citationList[i].uri # "" }
      firsts == { i \in usable : \A j \in 1..(i - 1) : citationList[j].uri # citationList[i].uri }
      nth(k) == CHOOSE i \in firsts : Cardinality({ j \in firsts : j < i }) = k - 1
  IN  uniqueChunks.present
      => uniqueChunks.items = [ k \in 1..Cardinality(firsts) |-> citationList[nth(k)] ]

\* C21 - citations are attached only if non-empty: the message carries a groundingChunks
\* field only when the deduplicated list of citations with a usable URL has an entry
AttachedOnlyIfNonEmpty == uniqueChunks.present => Len(uniqueChunks.items) > 0

\* C22 - thinking extraction: when a plain CHAT request ends normally and the text
\* accumulated from its chunks holds a <thinking>...</thinking> block, the trailing MODEL
\* message has the block's inner text (surrounding whitespace dropped) as reasoning and
\* the text without the block as content; when it holds no block, the content is the
\* accumulated text unchanged and no reasoning is set
ThinkingExtraction ==
  [][ \A r \in Reqs :
        (reqs[r].status = "running" /\ reqs'[r].status = "ended"
           /\ reqs'[r].outcome = "ok" /\ ~ reqs[r].stopped
           /\ ~ reqs[r].isInterpreterRequest /\ ~ reqs[r].isImageRequest
           /\ ~ reqs[r].isVideoRequest /\ reqs[r].model \in chatModels
           /\ reqs'[r].nChunks >= 1)
        => LET t == reqs'[r].streamed
               chat == FindChat(chatHistory', reqs[r].chatId)
               m == LastMessage(chat)
           IN  /\ HasLastModel(chat)
               /\ IF ThinkingMatches(t)
                  THEN /\ m.reasoning = Trim(SubSeq(t, ThinkingStart(t) + 1, ThinkingEnd(t) - 1))
                       /\ m.content = Trim(SubSeq(t, 1, ThinkingStart(t) - 1)
                                             \o SubSeq(t, ThinkingEnd(t) + 1, Len(t)))
                  ELSE /\ m.reasoning = EmptyText
                       /\ m.content = t ]_vars

\* C23 - empty-history pruning: the chatHistory item of localStorage never holds a
\* session whose message list is empty
EmptyHistoryPruning ==
  \A i \in 1..Len(localStorage.chatHistory) : Len(localStorage.chatHistory[i].messages) > 0

\* the effects have run on a history that holds a session without messages next to a
\* session with messages, and only the latter is saved
EmptyHistoryPruningWitness ==
  /\ ~ EffectsChange
  /\ \E i \in 1..Len(chatHistory) : Len(chatHistory[i].messages) = 0
  /\ Len(localStorage.chatHistory) > 0
  /\ Len(localStorage.chatHistory) < Len(chatHistory)

\* C24 - no automatic retry: every accepted send has made one call of an adapter
\* generation endpoint, also after the call failed or was cancelled, and a send that
\* was not accepted has made none
NoAutomaticRetry ==
  \A r \in Reqs : reqs[r].calls = (IF reqs[r].status = "none" THEN 0 ELSE 1)

\* a request failed, another was cancelled, and no request is running
NoAutomaticRetryWitness ==
  /\ \E r \in Reqs : reqs[r].status = "ended" /\ reqs[r].outcome = "error"
  /\ \E r \in Reqs : reqs[r].status = "ended" /\ reqs[r].outcome = "abort"
  /\ Running = {}
  /\ ~ EffectsChange

\* C25 - every finished request leaves isThinking false: once an accepted send has
\* ended (normally, by error or by stop), the MODEL message created as its placeholder,
\* wherever it is in chatHistory, has isThinking = FALSE
FinishedNotThinking ==
  \A r \in Reqs :
    reqs[r].status = "ended"
    => \A i \in 1..Len(chatHistory) :
         \A j \in 1..Len(chatHistory[i].messages) :
           chatHistory[i].messages[j].id = MessageId("msg-model", r)
           => ~ chatHistory[i].messages[j].isThinking

\* C26 - the loading flag is eventually cleared: when every adapter call eventually
\* returns or throws, every accepted send is eventually followed by a state in which
\* isLoading is false
LoadingEventuallyCleared ==
  \A r \in Reqs : (reqs[r].status = "running") ~> (~ isLoading)

\* a request streamed a chunk, was stopped, its adapter call threw AbortError, and the
\* flag is clear
LoadingEventuallyClearedWitness ==
  \E r \in Reqs :
    /\ reqs[r].status = "ended" /\ reqs[r].outcome = "abort"
    /\ reqs[r].nChunks >= 1
    /\ ~ isLoading

\* C27 - session creation on first send: a send accepted while activeChatId is null
\* adds exactly one session, in front of the sessions there were, makes it the active
\* session, and titles it with the prompt when the prompt has at most 40 characters and
\* with its first 40 characters followed by '...' otherwise
SessionCreationOnFirstSend ==
  [][ \A r \in Reqs :
        (reqs[r].status = "none" /\ reqs'[r].status = "running" /\ activeChatId = Null)
        => LET prompt == reqs'[r].prompt
           IN  /\ Len(chatHistory') = Len(chatHistory) + 1
               /\ Tail(chatHistory') = chatHistory
               /\ ~ HasChat(chatHistory, chatHistory'[1].id)
               /\ activeChatId' = chatHistory'[1].id
               /\ chatHistory'[1].title =
                    (IF Len(prompt) <= 40 THEN prompt
                     ELSE SubSeq(prompt, 1, 40) \o << ".", ".", "." >>) ]_vars

\* a second session was created in front of the first by a prompt of 41 characters: it
\* is active and its title has 43
SessionCreationOnFirstSendWitness ==
  /\ Len(chatHistory) = 2
  /\ activeChatId = chatHistory[1].id
  /\ Len(chatHistory[1].title) = 43
  /\ Len(chatHistory[2].title) = 40

\* C28 - chunk-order echo: in plain CHAT mode, after the k-th chunk callback of a
\* request the trailing MODEL message of its session has as content the concatenation
\* of the first k chunk texts, in arrival order
ChunkOrderEcho ==
  [][ \A r \in Reqs :
        (reqs[r].status = "running" /\ reqs'[r].nChunks = reqs[r].nChunks + 1
           /\ ~ reqs[r].isInterpreterRequest /\ ~ reqs[r].isImageRequest
           /\ ~ reqs[r].isVideoRequest /\ reqs[r].model \in chatModels
           /\ reqs'[r].status = "running")
        => LET chat == FindChat(chatHistory', reqs[r].chatId)
           IN  /\ HasChat(chatHistory', reqs[r].chatId)
               /\ HasLastModel(chat)
               /\ LastMessage(chat).content = reqs'[r].streamed ]_vars

\* the second chunk callback of a plain CHAT request has run: both chunks carried text
\* and the trailing MODEL message holds the two texts in order
ChunkOrderEchoWitness ==
  \E r \in Reqs :
    /\ reqs[r].status = "running" /\ reqs[r].nChunks = 2
    /\ ~ reqs[r].isImageRequest /\ ~ reqs[r].isVideoRequest
    /\ reqs[r].streamed = Hi \o There
    /\ LastMessage(FindChat(chatHistory, reqs[r].chatId)).content = Hi \o There

StopTouchesOnlyLiveMessage ==
  [][ lastOp' = "stop"
      => /\ Len(chatHistory') = Len(chatHistory)
         /\ \A i \in 1..Len(chatHistory) :
              /\ Len(chatHistory'[i].messages) = Len(chatHistory[i].messages)
              /\ \A j \in 1..Len(chatHistory[i].messages) :
                   chatHistory'[i].messages[j] # chatHistory[i].messages[j]
                   => \E r \in Running : chatHistory[i].messages[j].id = MessageId("msg-model", r) ]_vars

\* C31 - the file / directory union is preserved: after any sequence of calls of
\* findAndUpdateFile on the initial project tree, successful or failing, every node
\* has either content and no children (a file) or children and no content (a
\* directory), never both and never neither, and no node lies below a file
TaggedUnionPreserved ==
  \A p \in DOMAIN fileTree :
    /\ fileTree[p].children # fileTree[p].hasContent
    /\ \A i \in 1..(Len(p) - 1) :
         /\ SubSeq(p, 1, i) \in DOMAIN fileTree
         /\ fileTree[SubSeq(p, 1, i)].children

\* the merge loop wrote a file into a directory it created and then failed on an entry
\* that names this directory: the tree holds a directory with a file below it
TaggedUnionPreservedWitness ==
  /\ Len(call.entries) = 2
  /\ call.returned = << TRUE, FALSE >>
  /\ call.entries[2].path = SubSeq(call.entries[1].path, 1, 1)
  /\ Len(call.entries[1].path) = 2
  /\ call.entries[1].path \notin DOMAIN call.before
  /\ fileTree[call.entries[2].path].children
  /\ fileTree[call.entries[1].path].hasContent

\* C32 - the persisted active pointer is consistent: in every state the activeChatId
\* item of localStorage is absent or is the id of a session of the chatHistory item, a
\* session with at least one message
PersistedPointerConsistent ==
  localStorage.activeChatId # Null
  => /\ HasChat(localStorage.chatHistory, localStorage.activeChatId)
     /\ Len(FindChat(localStorage.chatHistory, localStorage.activeChatId).messages) > 0

\* the effects have run while the active session is one without messages and saved
\* sessions exist: the sessions are saved and the activeChatId item is absent
PersistedPointerConsistentWitness ==
  /\ ~ EffectsChange
  /\ HasChat(chatHistory, activeChatId)
  /\ Len(activeChat.messages) = 0
  /\ Len(localStorage.chatHistory) > 0
  /\ localStorage.activeChatId = Null

\* C33 - the project-sync effect preserves mutual exclusion: when the effect has set
\* isCodeInterpreterToggled to true (the active session has a project), none of
\* isDeepResearchToggled, isImageToolActive, isVideoToolActive is true
SyncPreservesExclusion ==
  [][ (RunEffects /\ syncPending /\ isCodeInterpreterToggled')
      => ~ (isDeepResearchToggled' \/ isImageToolActive' \/ isVideoToolActive') ]_vars

\* C34 - the model-reset effects stabilise: whenever one of the three model-compatibility
\* effects is about to change selectedModel, running the effects again and again leads
\* to a state in which none of them changes it
ModelResetStabilises ==
  (ModelResetEffect # selectedModel) ~> (ModelResetEffect = selectedModel)

\* C35 - request updates are confined to the request's own session: a step of a
\* request in flight (a chunk update, the error update, the finalization update) keeps
\* the list of sessions as it is - the same sessions in the same order - except for the
\* session whose id the request captured when it was sent; when that session is gone
\* (deleted, or the history cleared), the step changes no session and adds none
ConfinedToOwnSession ==
  [][ \A r \in Reqs :
        (reqs[r].status = "running" /\ reqs'[r] # reqs[r])
        => /\ Len(chatHistory') = Len(chatHistory)
           /\ \A i \in 1..Len(chatHistory) :
                /\ chatHistory'[i].id = chatHistory[i].id
                /\ chatHistory[i].id # reqs[r].chatId => chatHistory'[i] = chatHistory[i] ]_vars

\* a request received a chunk, its session was deleted while it was in flight, and the
\* request was finalized: the session is not in the list, which holds other sessions
ConfinedToOwnSessionWitness ==
  \E r \in Reqs :
    /\ reqs[r].status = "ended" /\ reqs[r].finalized
    /\ reqs[r].nChunks >= 1 /\ Len(reqs[r].streamed) > 0
    /\ ~ HasChat(chatHistory, reqs[r].chatId)
    /\ Len(chatHistory) > 0

\* C36 - a pending project update lands in the session that produced it: the step of
\* handleStreamComplete that commits pendingProjectUpdate changes the project of no
\* session but the one whose PROJECT-mode request produced it - the session holding
\* the project, of the same id, that the finalization copied and updated - and never
\* that of a different session that has become active in between
PendingLandsInProducer ==
  [][ HandleStreamComplete
      => \A i \in 1..Len(chatHistory) :
           chatHistory'[i].project # chatHistory[i].project
           => /\ chatHistory[i].project.present
              /\ chatHistory[i].project.id = pendingProjectUpdate.id ]_vars

\* C37 - the loading flag covers the live request: whenever a request that has not
\* been stopped is in flight (accepted and not yet in its finally block), isLoading is
\* true, also when an earlier, stopped request finishes during that time
LoadingCoversLiveRequest ==
  \A r \in Reqs : (reqs[r].status = "running" /\ ~ reqs[r].stopped) => isLoading

\* C38 - the active pointer is never dangling: once the active-session repair effect
\* has run, after any sequence of send, select, delete and clear-history operations,
\* activeChatId is either null or the id of a session present in chatHistory
ActivePointerRepaired ==
  [][ RunEffects => (activeChatId' = Null \/ HasChat(chatHistory', activeChatId')) ]_vars

\* the effects have run after the session of a request was deleted or the history
\* cleared, leaving no session: the list holds one new, empty session, which is the
\* active one
ActivePointerRepairedWitness ==
  /\ appVariant = 2
  /\ ~ EffectsChange
  /\ uiOps >= 1
  /\ \E r \in Reqs : reqs[r].status # "none" /\ ~ HasChat(chatHistory, reqs[r].chatId)
  /\ Len(chatHistory) = 1
  /\ chatHistory[1].messages = << >>
  /\ activeChatId = chatHistory[1].id
  /\ activeChatId = clock

====
